---- MODULE Spec2Model ----
(***************************************************************************)
(* Model of the archive-to-plot pipeline of seg_mem_explorer_demo          *)
(* (src/pages/utils/signal_processing_utils.py) and of the UI callbacks    *)
(* that build its Selection (src/pages/utils/dash_component_utils.py).     *)
(*                                                                         *)
(* Text is modelled as a sequence of one-character strings, so that        *)
(* str.strip, str.replace and f-string formatting are computed, not        *)
(* assumed.  A member file is the sequence of rows csv.reader yields for   *)
(* it (a row is a sequence of fields; an empty line is the row << >>).     *)
(* Fractions of the plot width are kept in hundredths (0.05 is 5); the     *)
(* binary rounding error of the unrounded products (3*0.05 is              *)
(* 0.15000000000000002 in Python) is below that resolution.                *)
(***************************************************************************)
EXTENDS Integers, Sequences, FiniteSets, TLC

VARIABLES
    upload,     \* the contents store: [filename, payload]; the payload is a
                \* zip ("zip", its members in archive) or undecodable
    archive,    \* the decoded zip: sequence of members [name, rows]
    filtering,  \* the Selection ("filtering_store"): a record of its keys
    op,         \* the operation that ran last
    result,     \* what that operation returned or raised
    controls    \* the properties of the page's components (buttons, inputs,
                \* counters, sliders, stores) that the callbacks read and set

vars == <<upload, archive, filtering, op, result, controls>>

---------------------------------------------------------------------------
(* Bounds of the model *)

MaxScanFiles == 2
MaxScanRows == 3
MaxFrame == 2       \* largest 0-based frame index of a Selection
MaxRecords == 2     \* largest records_max of a Selection
MaxData == 4        \* most data rows of a member file of the slicer runs
MaxOverlays == 3    \* most y channels after the first (each has an axis radio)
MaxPlotFiles == 2   \* most member files of an archive of the plot runs
MaxPreamble == 1    \* most metadata rows before the header in those files

---------------------------------------------------------------------------
(* Text *)

Whitespace == {" ", "\t"}

DigitChars == <<"0", "1", "2", "3", "4", "5", "6", "7", "8", "9">>

\* str(n) for n >= 0, as the f-strings format an int
RECURSIVE Dec(_)
Dec(n) ==
    IF n < 10 THEN <<DigitChars[n + 1]>>
    ELSE Append(Dec(n \div 10), DigitChars[(n % 10) + 1])

RECURSIVE LStrip(_)
LStrip(s) ==
    IF s = <<>> THEN s
    ELSE IF Head(s) \in Whitespace THEN LStrip(Tail(s)) ELSE s

RECURSIVE RStrip(_)
RStrip(s) ==
    IF s = <<>> THEN s
    ELSE IF s[Len(s)] \in Whitespace THEN RStrip(SubSeq(s, 1, Len(s) - 1)) ELSE s

\* field.strip()
Strip(s) == RStrip(LStrip(s))

Min(a, b) == IF a < b THEN a ELSE b

Uppers == <<"A", "B", "C", "D", "E", "F", "G", "H", "I", "J", "K", "L", "M",
            "N", "O", "P", "Q", "R", "S", "T", "U", "V", "W", "X", "Y", "Z">>
Lowers == <<"a", "b", "c", "d", "e", "f", "g", "h", "i", "j", "k", "l", "m",
            "n", "o", "p", "q", "r", "s", "t", "u", "v", "w", "x", "y", "z">>

\* str.lower()
Lower(s) ==
    [i \in 1..Len(s) |->
        IF \E k \in 1..Len(Uppers) : Uppers[k] = s[i]
        THEN Lowers[CHOOSE k \in 1..Len(Uppers) : Uppers[k] = s[i]]
        ELSE s[i]]

\* str.endswith(suffix)
EndsWith(s, suffix) ==
    /\ Len(s) >= Len(suffix)
    /\ SubSeq(s, Len(s) - Len(suffix) + 1, Len(s)) = suffix

DotZip == <<".", "z", "i", "p">>
DotCsv == <<".", "c", "s", "v">>

\* the i-th member name: f1.csv, f2.csv, ...
MemberName(i) == <<"f">> \o Dec(i) \o <<".", "c", "s", "v">>

\* zip_file.open(name) / zip_file.read(name): the rows of the member so named
MemberRows(zip_file, name) ==
    LET i == CHOOSE j \in 1..Len(zip_file) : zip_file[j].name = name
    IN zip_file[i].rows

\* zip_file.namelist()
namelist(zip_file) == [i \in 1..Len(zip_file) |-> zip_file[i].name]

---------------------------------------------------------------------------
(* Header Scanner: find_first_empty_row_index *)

DefaultChunkSize == 20

\* `not any(field.strip() for field in row)`
IsEmptyRow(row) == ~ \E i \in 1..Len(row) : Strip(row[i]) # <<>>

\* list(itertools.islice(csv_reader, chunk_size)) for the chunk_start-th call
Chunk(rows, chunk_start, chunk_size) ==
    SubSeq(rows, chunk_start * chunk_size + 1,
           Min(Len(rows), (chunk_start + 1) * chunk_size))

\* the inner for loop: row_index of the first empty row of the chunk, -1 if none
FirstEmptyInChunk(chunk) ==
    IF \E i \in 1..Len(chunk) : IsEmptyRow(chunk[i])
    THEN (CHOOSE i \in 1..Len(chunk) :
              /\ IsEmptyRow(chunk[i])
              /\ \A j \in 1..(i - 1) : ~ IsEmptyRow(chunk[j])) - 1
    ELSE -1

\* the outer for loop from chunk number chunk_start on; iter(..., []) stops at
\* the first empty chunk and the function then returns 0
RECURSIVE ScanChunks(_, _, _)
ScanChunks(rows, chunk_size, chunk_start) ==
    LET chunk == Chunk(rows, chunk_start, chunk_size)
        row_index == FirstEmptyInChunk(chunk)
    IN IF chunk = <<>> THEN 0
       ELSE IF row_index >= 0 THEN chunk_start * chunk_size + row_index
       ELSE ScanChunks(rows, chunk_size, chunk_start + 1)

\* a mutant of process_csv: only the first chunk is scanned
process_csv_first_chunk(rows, chunk_size) ==
    IF FirstEmptyInChunk(Chunk(rows, 0, chunk_size)) >= 0
    THEN FirstEmptyInChunk(Chunk(rows, 0, chunk_size))
    ELSE 0

process_csv(rows, chunk_size) ==
    ScanChunks(rows, chunk_size, 0)

first_empty_row_index_list(zip_file, csv_file_list, chunk_size) ==
    [i \in 1..Len(csv_file_list) |->
        process_csv(MemberRows(zip_file, csv_file_list[i]), chunk_size)]

find_first_empty_row_index_nodec(zip_file, csv_file_list, chunk_size) ==
    LET list == first_empty_row_index_list(zip_file, csv_file_list, chunk_size)
    IN [first_empty_row_index |->
            IF list # <<>> /\ \A i \in 1..Len(list) : list[i] = list[1]
            THEN list[1] ELSE 0]

find_first_empty_row_index(zip_file, csv_file_list, chunk_size) ==
    LET list == first_empty_row_index_list(zip_file, csv_file_list, chunk_size)
    IN [first_empty_row_index |->
            IF list # <<>> /\ \A i \in 1..Len(list) : list[i] = list[1]
            THEN list[1] - 1 ELSE 0]

---------------------------------------------------------------------------
(* Inputs of the Header Scanner *)

\* rows as csv.reader yields them: an empty line and a line of
\* whitespace-only fields are blank; a line with a padded value and an empty
\* field is not
BlankRowKinds == { <<>>, << <<" ">>, <<>> >> }

ValueRow == << <<" ", "a", " ">>, <<>> >>

ScanRowKinds == BlankRowKinds \cup {ValueRow}

\* a file is some value rows, then either nothing or a blank row followed by
\* at most one more row of any kind
ScanTails ==
    {<<>>} \cup {<<b>> : b \in BlankRowKinds}
           \cup {<<b, r>> : b \in BlankRowKinds, r \in ScanRowKinds}

ScanFiles ==
    { [i \in 1..p |-> ValueRow] \o t : p \in 0..MaxScanRows, t \in ScanTails }

SeqsUpTo(S, n) == UNION {[1..k -> S] : k \in 0..n}

ScanArchives ==
    { [i \in 1..Len(files) |-> [name |-> MemberName(i), rows |-> files[i]]] :
        files \in SeqsUpTo(ScanFiles, MaxScanFiles) }

\* d.zip holding the members of archive
ZipUpload == [filename |-> <<"d", ".", "z", "i", "p">>, payload |-> "zip"]

NoFiltering == [none |-> TRUE]
NoResult == [none |-> TRUE]
NoControls == [none |-> TRUE]

InitScan ==
    /\ controls = NoControls
    /\ upload = ZipUpload
    /\ archive \in ScanArchives
    /\ filtering = NoFiltering
    /\ op = "init"
    /\ result = NoResult

\* find_first_empty_row_index(zip_file, zip_file.namelist()) with the default
\* chunk size
ScanArchive ==
    /\ op = "init"
    /\ op' = "scan"
    /\ result' = find_first_empty_row_index(
                     archive, namelist(archive), DefaultChunkSize)
    /\ UNCHANGED <<upload, archive, filtering, controls>>

NextScan == ScanArchive

SpecScan == InitScan /\ [][NextScan]_vars


---------------------------------------------------------------------------
(* pandas.read_csv and the column access the Record Slicer relies on *)

None == <<"None">>

\* a line the pandas parser drops (skip_blank_lines): empty, or whitespace
\* with no delimiter in it
PandasBlankLine(row) ==
    \/ row = <<>>
    \/ Len(row) = 1 /\ Strip(row[1]) = <<>>

RECURSIVE DropBlankLines(_)
DropBlankLines(rows) ==
    IF rows = <<>> THEN <<>>
    ELSE IF PandasBlankLine(Head(rows)) THEN DropBlankLines(Tail(rows))
    ELSE <<Head(rows)>> \o DropBlankLines(Tail(rows))

\* the column labels pandas gives a header row: an empty cell is
\* "Unnamed: <i>", a repeated label gets ".<n>" appended
ColumnNames(header) ==
    [i \in 1..Len(header) |->
        LET earlier == Cardinality({j \in 1..(i - 1) : header[j] = header[i]})
        IN IF header[i] = <<>>
           THEN <<"U", "n", "n", "a", "m", "e", "d", ":", " ">> \o Dec(i - 1)
           ELSE IF earlier > 0 THEN header[i] \o <<".">> \o Dec(earlier)
           ELSE header[i]]

\* pd.read_csv(text, skiprows=skiprows): the first skiprows lines are dropped,
\* then the blank lines; the first line left is the header, the others the
\* records.  No line left raises EmptyDataError (a ValueError).
read_csv(rows, skiprows) ==
    LET lines == DropBlankLines(SubSeq(rows, skiprows + 1, Len(rows)))
    IN IF lines = <<>>
       THEN [raised |-> "EmptyDataError"]
       ELSE [raised |-> "",
             skiprows |-> skiprows,
             columns |-> ColumnNames(Head(lines)),
             records |-> Tail(lines)]

HasColumn(data_frame, column) ==
    \E i \in 1..Len(data_frame.columns) : data_frame.columns[i] = column

\* data_frame[column]: the cells of that column, record by record
Column(data_frame, column) ==
    LET i == CHOOSE j \in 1..Len(data_frame.columns) :
                 data_frame.columns[j] = column
    IN [r \in 1..Len(data_frame.records) |-> data_frame.records[r][i]]

\* where Python puts a slice bound of a sequence of length n
SliceBound(b, n) == IF b < 0 THEN (IF b + n < 0 THEN 0 ELSE b + n) ELSE Min(b, n)

\* series[start:] -- the slice with its upper bound dropped
PySliceOpenEnd(series, start, stop) ==
    SubSeq(series, SliceBound(start, Len(series)) + 1, Len(series))

\* series[start:stop]
PySlice(series, start, stop) ==
    SubSeq(series, SliceBound(start, Len(series)) + 1,
           SliceBound(stop, Len(series)))

---------------------------------------------------------------------------
(* An insertion-ordered dict: a sequence of <<key, value>> with unique keys *)

DictHas(d, key) == \E i \in 1..Len(d) : d[i][1] = key

DictGet(d, key) == d[CHOOSE i \in 1..Len(d) : d[i][1] = key][2]

DictSet(d, key, value) ==
    IF DictHas(d, key)
    THEN [i \in 1..Len(d) |-> IF d[i][1] = key THEN <<key, value>> ELSE d[i]]
    ELSE Append(d, <<key, value>>)

DictValues(d) == [i \in 1..Len(d) |-> d[i][2]]

Has(f, key) == key \in DOMAIN f

---------------------------------------------------------------------------
(* Record Slicer: process_one_csv_file_for_scatter_data *)

\* f"{channel_name} frame{frame_index+1} {csv_file_name}"
TraceName(channel_name, frame_index, csv_file_name) ==
    channel_name \o <<" ", "f", "r", "a", "m", "e">> \o Dec(frame_index + 1)
                 \o <<" ">> \o csv_file_name

\* a mutant of TraceAxis: every trace goes to the primary axis
TraceAxisPrimary(channel_name, f) == <<"y">>

\* lines 324-327
TraceAxis(channel_name, f) ==
    IF Has(f, "y_axis_selection") /\ DictHas(f.y_axis_selection, channel_name)
    THEN DictGet(f.y_axis_selection, channel_name)
    ELSE <<"y">>

\* lines 333-334: filtering.get("legend_group") is None when the key is absent
TraceLegendGroup(channel_name, f) ==
    IF Has(f, "legend_group") /\ f.legend_group THEN channel_name ELSE None

\* a mutant of Scatter: the frame offset is left out of the start row
ScatterNoFrameOffset(data_frame, csv_file_name, f, frame_index, channel_name) ==
    LET slice_size == f.records_slice[2] - f.records_slice[1]
        start == f.records_slice[1]
    IN [x |-> PySlice(Column(data_frame, f.x_axis_data), start, start + slice_size),
        y |-> PySlice(Column(data_frame, channel_name), start, start + slice_size),
        yaxis |-> TraceAxis(channel_name, f),
        name |-> TraceName(channel_name, frame_index, csv_file_name),
        legendgroup |-> TraceLegendGroup(channel_name, f)]

\* lines 320 and 329-334: the trace of one (frame, channel) pair
Scatter(data_frame, csv_file_name, f, frame_index, channel_name) ==
    LET slice_size == f.records_slice[2] - f.records_slice[1]
        start == f.records_max * frame_index + f.records_slice[1]
    IN [x |-> PySlice(Column(data_frame, f.x_axis_data), start, start + slice_size),
        y |-> PySlice(Column(data_frame, channel_name), start, start + slice_size),
        yaxis |-> TraceAxis(channel_name, f),
        name |-> TraceName(channel_name, frame_index, csv_file_name),
        legendgroup |-> TraceLegendGroup(channel_name, f)]

\* The two nested for loops, frame-major.  data_frame[...] raises KeyError at
\* the first pair when the x column or any y column is not in the header, so
\* then nothing is returned.
process_one_csv_file_for_scatter_data(zip_file, csv_file_name, f, process_result) ==
    LET skiprows == process_result.first_empty_row_index + 1
        data_frame == read_csv(MemberRows(zip_file, csv_file_name), skiprows)
        frames == f.frames_to_keep
        channels == f.y_axis_data
        n == Len(channels)
    IN IF data_frame.raised # ""
       THEN [raised |-> data_frame.raised, read_skiprows |-> skiprows]
       ELSE IF /\ frames # <<>>
               /\ channels # <<>>
               /\ \/ ~ HasColumn(data_frame, f.x_axis_data)
                  \/ \E c \in 1..n : ~ HasColumn(data_frame, channels[c])
       THEN [raised |-> "KeyError", read_skiprows |-> skiprows,
             read_columns |-> data_frame.columns]
       ELSE [raised |-> "", read_skiprows |-> skiprows,
             read_columns |-> data_frame.columns,
             traces |->
                [i \in 1..(Len(frames) * n) |->
                    Scatter(data_frame, csv_file_name, f,
                            frames[((i - 1) \div n) + 1],
                            channels[((i - 1) % n) + 1])]]

---------------------------------------------------------------------------
(* Inputs of the Record Slicer *)

ChT == <<"t">>
ChA == <<"a">>
ChB == <<"b">>
ChC == <<"c">>

HeaderTAB == <<ChT, ChA, ChB>>

\* the r-th data row (0-based): the cells 1<r>, 2<r>, 3<r> with r in decimal
DataRow(r) == [c \in 1..3 |-> Dec(c) \o Dec(r)]

DataRows(n) == [r \in 1..n |-> DataRow(r - 1)]

MetaRow == << <<"M", "o", "d", "e", "l">>, <<"X">>, <<>> >>

\* a file with no preamble, and one with a one-row preamble closed by an
\* empty line
SliceFiles ==
    { pre \o <<HeaderTAB>> \o DataRows(n) :
        pre \in {<<>>, <<MetaRow, <<>> >>}, n \in 0..MaxData }

\* frames_to_keep: the handles of the frames slider less one, ascending
RECURSIVE Ascending(_)
Ascending(S) ==
    IF S = {} THEN <<>>
    ELSE LET m == CHOOSE x \in S : \A y \in S : x <= y
         IN <<m>> \o Ascending(S \ {m})

FrameLists == {Ascending(S) : S \in SUBSET (0..MaxFrame)}

UnitsS == <<"s">>
UnitsV == <<"V">>

BaseFiltering(frames, slice, max, channels) ==
    [frames_to_keep |-> frames, x_axis_data |-> ChT, y_axis_data |-> channels,
     records_slice |-> slice, records_max |-> max]
    @@ ("Horizontal Units" :> UnitsS) @@ ("Vertical Units" :> UnitsV)

\* the optional keys of a Selection: an axis for channel b with grouped
\* legends
WithOptionalKeys(f) ==
    f @@ [y_axis_selection |-> << <<ChB, <<"y", "2">> >> >>,
          y_axis_side |-> << <<ChB, TRUE>> >>,
          legend_group |-> TRUE]

InitSlice ==
    /\ controls = NoControls
    /\ upload = ZipUpload
    /\ \E rows \in SliceFiles :
          archive = <<[name |-> MemberName(1), rows |-> rows]>>
    /\ \E frames \in FrameLists, max \in 1..MaxRecords,
          s \in 0..(MaxRecords + 1), e \in 0..(MaxRecords + 1),
          channels \in {<<ChA>>, <<ChB, ChA>>, <<ChA, ChC>>},
          opt \in BOOLEAN :
          filtering =
              IF opt
              THEN WithOptionalKeys(BaseFiltering(frames, <<s, e>>, max, channels))
              ELSE BaseFiltering(frames, <<s, e>>, max, channels)
    /\ op = "init"
    /\ result = NoResult

\* one member file through the Header Scanner and the Record Slicer, as
\* plot_selected_zip_contents runs them (lines 402-405, 369-372)
SliceOneFile ==
    /\ op = "init"
    /\ op' = "slice"
    /\ result' =
         process_one_csv_file_for_scatter_data(
             archive, archive[1].name, filtering,
             find_first_empty_row_index(archive, <<archive[1].name>>,
                                        DefaultChunkSize))
    /\ UNCHANGED <<upload, archive, filtering, controls>>

NextSlice == SliceOneFile

SpecSlice == InitSlice /\ [][NextSlice]_vars


---------------------------------------------------------------------------
(* Axis Layout Engine: update_layout_with_y_axes and what it calls *)

AxisY == <<"y">>

KeyXaxis == <<"x", "a", "x", "i", "s">>
KeyYaxis == <<"y", "a", "x", "i", "s">>

\* name.replace('y', 'yaxis')
RECURSIVE ReplaceYWithYaxis(_)
ReplaceYWithYaxis(name) ==
    IF name = <<>> THEN <<>>
    ELSE (IF Head(name) = "y" THEN KeyYaxis ELSE <<Head(name)>>)
         \o ReplaceYWithYaxis(Tail(name))

\* set(list)
ToSet(list) == {list[i] : i \in 1..Len(list)}

\* the sequences in which iterating a set may yield its elements
RECURSIVE Orders(_)
Orders(S) ==
    IF S = {} THEN {<<>>}
    ELSE UNION {{<<a>> \o o : o \in Orders(S \ {a})} : a \in S}

\* the elements of S in the order set_order lists them: one iteration of set(S)
IterSet(S, set_order) == SelectSeq(set_order, LAMBDA a : a \in S)

\* the elements of S in the order a list first names them
FirstSeen(list) ==
    SelectSeq([i \in 1..Len(list) |->
                  IF \E j \in 1..(i - 1) : list[j] = list[i] THEN <<>> ELSE list[i]],
              LAMBDA a : a # <<>>)

create_base_layout_configuration(f) ==
    << <<KeyXaxis, [title |-> f["Horizontal Units"], domain |-> <<0, 100>>]>>,
       <<KeyYaxis, [title |-> f["Vertical Units"], position |-> 0, anchor |-> "free"]>> >>

\* a mutant of separate_left_right_axes: the primary axis is not left out
separate_left_right_axes_keeping_primary(y_selection, y_side) ==
    LET n == Min(Len(y_selection), Len(y_side))
        pick(right) ==
            SelectSeq([i \in 1..n |-> IF y_side[i] = right THEN y_selection[i] ELSE <<>>],
                      LAMBDA a : a # <<>>)
    IN [left_list |-> pick(FALSE), right_list |-> pick(TRUE)]

\* zip(y_selection, y_side) stops at the shorter list
separate_left_right_axes(y_selection, y_side) ==
    LET n == Min(Len(y_selection), Len(y_side))
        pick(right) ==
            LET marked == [i \in 1..n |->
                              IF y_side[i] = right /\ y_selection[i] # AxisY
                              THEN y_selection[i] ELSE <<>>]
            IN SelectSeq(marked, LAMBDA a : a # <<>>)
    IN [left_list |-> pick(FALSE), right_list |-> pick(TRUE)]

\* a mutant of update_x_axis_domain: every list entry is counted, not every axis
x_axis_domain_counting_entries(left_list, right_list) ==
    << IF left_list # <<>> THEN Len(left_list) * 5 ELSE 0,
       IF right_list # <<>> THEN 105 - Len(right_list) * 5 ELSE 100 >>

\* lines 512-514: (left_side_domain, right_side_domain)
x_axis_domain(left_list, right_list) ==
    << IF left_list # <<>> THEN Cardinality(ToSet(left_list)) * 5 ELSE 0,
       IF right_list # <<>> THEN 105 - Cardinality(ToSet(right_list)) * 5 ELSE 100 >>

update_x_axis_domain(layout_configuration, left_list, right_list) ==
    DictSet(layout_configuration, KeyXaxis,
            [title |-> DictGet(layout_configuration, KeyXaxis).title,
             domain |-> x_axis_domain(left_list, right_list)])

\* {item: f(i) for i, item in enumerate(order)} merged into positions
RECURSIVE PutPositions(_, _, _, _)
PutPositions(positions, order, i, right) ==
    IF i > Len(order) THEN positions
    ELSE PutPositions(
             DictSet(positions, order[i],
                     IF right THEN 100 - (i - 1) * 5 ELSE i * 5),
             order, i + 1, right)

\* a mutant of calculate_axis_positions: the right axes start one step inside
calculate_axis_positions_right_inset(left_list, right_list, set_order) ==
    PutPositions(
        PutPositions(<<>>, IterSet(ToSet(left_list), set_order), 1, FALSE),
        <<AxisY>> \o IterSet(ToSet(right_list), set_order), 1, TRUE)

\* set_order is the order in which this run iterates set(left_list) and
\* set(right_list); round(.., 2) leaves a whole number of hundredths
calculate_axis_positions(left_list, right_list, set_order) ==
    PutPositions(
        PutPositions(<<>>, IterSet(ToSet(left_list), set_order), 1, FALSE),
        IterSet(ToSet(right_list), set_order), 1, TRUE)

create_y_axis_config(name, positions, f, is_right) ==
    IF is_right
    THEN [overlaying |-> AxisY, position |-> DictGet(positions, name),
          title |-> f["Vertical Units"], side |-> "right"]
    ELSE [overlaying |-> AxisY, position |-> DictGet(positions, name),
          title |-> f["Vertical Units"]]

RECURSIVE AddAxes(_, _, _, _, _, _)
AddAxes(layout_configuration, names, n_left, positions, f, i) ==
    IF i > Len(names) THEN layout_configuration
    ELSE AddAxes(
             DictSet(layout_configuration, ReplaceYWithYaxis(names[i]),
                     create_y_axis_config(names[i], positions, f, i > n_left)),
             names, n_left, positions, f, i + 1)

add_y_axes_to_layout(layout_configuration, left_list, right_list, positions, f) ==
    AddAxes(layout_configuration, left_list \o right_list, Len(left_list),
            positions, f, 1)

\* the KeyError of a Selection without y_axis_selection or y_axis_side is
\* swallowed and the layout left as it was
update_layout_with_y_axes(layout_configuration, f, set_order) ==
    IF ~ Has(f, "y_axis_selection") \/ ~ Has(f, "y_axis_side")
    THEN layout_configuration
    ELSE LET lists == separate_left_right_axes(
                          DictValues(f.y_axis_selection), DictValues(f.y_axis_side))
             positions == calculate_axis_positions(
                              lists.left_list, lists.right_list, set_order)
         \* without positions both lists are empty and the loop of
         \* add_y_axes_to_layout has nothing to add
         IN IF positions = <<>>
            THEN update_x_axis_domain(
                     layout_configuration, lists.left_list, lists.right_list)
            ELSE add_y_axes_to_layout(
                     update_x_axis_domain(
                         layout_configuration, lists.left_list, lists.right_list),
                     lists.left_list, lists.right_list, positions, f)

\* the positions dict update_layout_with_y_axes computes on its way (line 466);
\* none when the KeyError came first
axis_positions(f, set_order) ==
    IF ~ Has(f, "y_axis_selection") \/ ~ Has(f, "y_axis_side")
    THEN <<>>
    ELSE LET lists == separate_left_right_axes(
                          DictValues(f.y_axis_selection), DictValues(f.y_axis_side))
         IN calculate_axis_positions(lists.left_list, lists.right_list, set_order)

\* the axes a Selection names, in every order a set may yield them
SetOrders(f) ==
    Orders(IF Has(f, "y_axis_selection")
           THEN ToSet(DictValues(f.y_axis_selection)) ELSE {})

---------------------------------------------------------------------------
(* The axis radios and side switches: callbacks_radioitems.update_filtering_store *)

\* list(iterable): the items, materialised
List(items) == SubSeq(items, 1, Len(items))

\* a mutant of update_list: every pair keeps its own state
update_list_keeping_states(original_list) == original_list

\* update_list: every pair takes the state of the first pair with its value
update_list(original_list) ==
    List([i \in 1..Len(original_list) |->
        LET first == CHOOSE j \in 1..Len(original_list) :
                         /\ original_list[j][1] = original_list[i][1]
                         /\ \A k \in 1..(j - 1) :
                               original_list[k][1] # original_list[i][1]
        IN <<original_list[i][1], original_list[first][2]>>])

\* lines 759-765, from position index on
RECURSIVE NormaliseSwitch(_, _, _)
NormaliseSwitch(radioitems_values, switch, index) ==
    IF index > Len(radioitems_values) THEN switch
    ELSE IF radioitems_values[index] = 1
    THEN NormaliseSwitch(radioitems_values,
                         [switch EXCEPT ![index] = FALSE], index + 1)
    ELSE LET updated == update_list(
                 List([i \in 1..Len(switch) |-> <<radioitems_values[i], switch[i]>>]))
         IN NormaliseSwitch(radioitems_values,
                            List([i \in 1..Len(updated) |-> updated[i][2]]),
                            index + 1)

\* f'y{n}' if n > 1 else 'y'
AxisOfRadio(n) == IF n > 1 THEN <<"y">> \o Dec(n) ELSE AxisY

\* d[key] = value for each key in turn
RECURSIVE DictFromLists(_, _, _, _)
DictFromLists(d, keys, values, i) ==
    IF i > Len(keys) THEN d
    ELSE DictFromLists(DictSet(d, keys[i], values[i]), keys, values, i + 1)

WithKey(f, key, value) == [k \in (DOMAIN f) \cup {key} |-> IF k = key THEN value ELSE f[k]]

\* radioitems_values and switch come from the same ALL pattern and have one
\* entry per rendered radio; fewer radios than channels raises IndexError in
\* the first loop, before the store is touched
update_filtering_store(radioitems_values, switch, f) ==
    LET keys == IF f.y_axis_data = <<>> THEN <<>> ELSE Tail(f.y_axis_data)
    IN IF Len(radioitems_values) < Len(keys)
       THEN [filtering |-> f, no_update |-> TRUE]
       ELSE LET selection == DictFromLists(
                     <<>>, keys,
                     [i \in 1..Len(keys) |-> AxisOfRadio(radioitems_values[i])], 1)
                new_switch == NormaliseSwitch(radioitems_values, switch, 1)
                side == DictFromLists(<<>>, keys, new_switch, 1)
            IN [filtering |-> WithKey(WithKey(f, "y_axis_selection", selection),
                                      "y_axis_side", side),
                no_update |-> FALSE,
                switch |-> new_switch]

---------------------------------------------------------------------------
(* Inputs of the Axis Layout Engine *)

\* CH1, CH2, ...
ChannelName(i) == <<"C", "H">> \o Dec(i)

InitLayout ==
    /\ controls = NoControls
    /\ upload = ZipUpload
    /\ archive = <<>>
    /\ \E n \in 0..MaxOverlays :
          filtering = BaseFiltering(<<0>>, <<0, 1>>, 1,
                                    [i \in 1..(n + 1) |-> ChannelName(i)])
    /\ op = "init"
    /\ result = NoResult

\* the user sets radios and switches; each channel after the first has a radio
\* offering y, y2, ..., one option per y channel
UpdateFilteringStore ==
    /\ op = "init"
    /\ \E radioitems_values \in [1..(Len(filtering.y_axis_data) - 1) ->
                                    1..Len(filtering.y_axis_data)],
          switch \in [1..(Len(filtering.y_axis_data) - 1) -> BOOLEAN] :
          LET returned == update_filtering_store(radioitems_values, switch, filtering)
          IN /\ filtering' = returned.filtering
             /\ result' = [radioitems_values |-> radioitems_values,
                           switch_in |-> switch,
                           switch |-> IF returned.no_update THEN switch
                                      ELSE returned.switch]
    /\ op' = "store"
    /\ UNCHANGED <<upload, archive, controls>>

\* lines 407-408 of plot_selected_zip_contents
LayoutFigure ==
    /\ op \in {"init", "store"}
    /\ \E set_order \in SetOrders(filtering) :
          result' = [layout |->
                        update_layout_with_y_axes(
                            create_base_layout_configuration(filtering),
                            filtering, set_order),
                     positions |-> axis_positions(filtering, set_order)]
    /\ op' = "layout"
    /\ UNCHANGED <<upload, archive, filtering, controls>>

NextLayout == UpdateFilteringStore \/ LayoutFigure

SpecLayout == InitLayout /\ [][NextLayout]_vars


---------------------------------------------------------------------------
(* Container Reader and the plot pipeline: plot_selected_zip_contents *)

\* The extension check comes first; then base64.b64decode raises
\* binascii.Error and zipfile.ZipFile raises BadZipFile on what they cannot
\* read.
read_and_validate_zip(file_contents, file_name, members) ==
    IF ~ EndsWith(Lower(file_name), DotZip) THEN [raised |-> "ValueError"]
    ELSE IF file_contents = "not_base64" THEN [raised |-> "binascii.Error"]
    ELSE IF file_contents = "not_zip" THEN [raised |-> "BadZipFile"]
    ELSE [raised |-> "", zip_file |-> members]

\* a mutant of the csv_file_list comprehension: the suffix is compared as written
CsvNamesCaseSensitive(zip_file) ==
    SelectSeq(namelist(zip_file), LAMBDA n : EndsWith(n, DotCsv))

CsvNames(zip_file) ==
    SelectSeq(namelist(zip_file), LAMBDA n : EndsWith(Lower(n), DotCsv))

\* filtering["files_to_keep"] raises KeyError when absent: the whole list then
get_csv_file_list(zip_file, f) ==
    LET csv_file_list == CsvNames(zip_file)
    IN IF csv_file_list = <<>> THEN [raised |-> "ValueError"]
       ELSE IF Has(f, "files_to_keep")
       THEN [raised |-> "",
             names |-> SelectSeq(
                 [i \in 1..Len(csv_file_list) |->
                     IF (i - 1) \in ToSet(f.files_to_keep)
                     THEN csv_file_list[i] ELSE <<>>],
                 LAMBDA n : n # <<>>)]
       ELSE [raised |-> "", names |-> csv_file_list]

\* The loop over the files from the i-th on: nothing is caught here, so the
\* first file that raises ends the loop.  reads lists what read_csv was
\* called with and found, file by file.
RECURSIVE ProcessFiles(_, _, _, _, _, _)
ProcessFiles(validated_zip, csv_files, skiprows, f, i, done) ==
    IF i > Len(csv_files) THEN done
    ELSE LET one == process_one_csv_file_for_scatter_data(
                        validated_zip, csv_files[i], f, skiprows)
             read == [name |-> csv_files[i],
                      skiprows |-> one.read_skiprows,
                      columns |-> IF Has(one, "read_columns")
                                  THEN one.read_columns ELSE <<>>]
         IN IF one.raised # ""
            THEN [raised |-> one.raised, traces |-> done.traces,
                  reads |-> Append(done.reads, read)]
            ELSE ProcessFiles(validated_zip, csv_files, skiprows, f, i + 1,
                              [raised |-> "",
                               traces |-> done.traces \o one.traces,
                               reads |-> Append(done.reads, read)])

process_multiple_csv_files_for_scatter_data(validated_zip, csv_files, skiprows, f) ==
    ProcessFiles(validated_zip, csv_files, skiprows, f, 1,
                 [raised |-> "", traces |-> <<>>, reads |-> <<>>])

\* the legend offset -0.25 + (-0.025*len(figure_data)) in thousandths; the
\* dotted rectangle spans the x-axis domain
create_and_style_figure(figure_data, theme_switch, figure_layout) ==
    [data |-> figure_data,
     layout |-> figure_layout,
     template |-> IF theme_switch THEN "plotly" ELSE "plotly_dark",
     height |-> 600,
     legend_y |-> -250 - 25 * Len(figure_data),
     shape |-> [x0 |-> DictGet(figure_layout, KeyXaxis).domain[1],
                x1 |-> DictGet(figure_layout, KeyXaxis).domain[2]]]

\* The except clause catches binascii.Error, BadZipFile and ValueError
\* (EmptyDataError is one) and returns PreventUpdate; a KeyError leaves the
\* function.
plot_selected_zip_contents(zip_contents, zip_name, members, f, use_selected_theme, set_order) ==
    LET validated == read_and_validate_zip(zip_contents, zip_name, members)
        listed == get_csv_file_list(validated.zip_file, f)
        skiprows == find_first_empty_row_index(
                        validated.zip_file, listed.names, DefaultChunkSize)
        scatter == process_multiple_csv_files_for_scatter_data(
                       validated.zip_file, listed.names, skiprows, f)
        layout_configuration ==
            update_layout_with_y_axes(
                create_base_layout_configuration(f), f, set_order)
    IN IF validated.raised # ""
       THEN [outcome |-> "PreventUpdate", error |-> validated.raised, reads |-> <<>>]
       ELSE IF listed.raised # ""
       THEN [outcome |-> "PreventUpdate", error |-> listed.raised, reads |-> <<>>]
       ELSE IF scatter.raised = "KeyError"
       THEN [outcome |-> "raised", error |-> "KeyError", reads |-> scatter.reads]
       ELSE IF scatter.raised # ""
       THEN [outcome |-> "PreventUpdate", error |-> scatter.raised,
             reads |-> scatter.reads]
       ELSE [outcome |-> "figure", error |-> "", reads |-> scatter.reads,
             csv_file_names |-> listed.names,
             skiprows |-> skiprows,
             figure |-> create_and_style_figure(
                            scatter.traces, use_selected_theme, layout_configuration)]

---------------------------------------------------------------------------
(* Inputs of the plot pipeline *)

HeaderTAC == <<ChT, ChA, ChC>>

\* a separator row of the same width as the others, all whitespace
BlankCellsRow == << <<" ">>, <<>>, <<" ">> >>

\* metadata rows, then no separator, an empty line or a row of blank cells,
\* then a header and MaxRecords data rows
PlotFiles ==
    { [i \in 1..pre |-> MetaRow] \o sep \o <<header>> \o DataRows(MaxRecords) :
        pre \in 0..MaxPreamble,
        sep \in {<<>>, << <<>> >>, <<BlankCellsRow>>},
        header \in {HeaderTAB, HeaderTAC} }

PlotArchives ==
    { [i \in 1..Len(files) |-> [name |-> MemberName(i), rows |-> files[i]]] :
        files \in SeqsUpTo(PlotFiles, MaxPlotFiles) }

PlotUploads ==
    { [filename |-> n, payload |-> c] :
        n \in { <<"d", ".", "Z", "I", "P">>, <<"d", ".", "c", "s", "v">> },
        c \in {"zip", "not_base64", "not_zip"} }

InitPlot ==
    /\ controls = NoControls
    /\ upload \in PlotUploads
    /\ archive \in (IF upload.payload = "zip" THEN PlotArchives ELSE {<<>>})
    /\ \E channels \in {<<ChA>>, <<ChA, ChB>>}, keep \in BOOLEAN :
          filtering =
              IF keep
              THEN WithKey(BaseFiltering(<<0>>, <<0, MaxRecords>>, MaxRecords, channels),
                           "files_to_keep", <<0>>)
              ELSE BaseFiltering(<<0>>, <<0, MaxRecords>>, MaxRecords, channels)
    /\ op = "init"
    /\ result = NoResult

\* update_graph_with_uploaded_file hands the stores to the pipeline
PlotSelectedZipContents ==
    /\ op = "init"
    /\ op' = "plot"
    /\ \E use_selected_theme \in BOOLEAN, set_order \in SetOrders(filtering) :
          result' = plot_selected_zip_contents(
                        upload.payload, upload.filename, archive, filtering,
                        use_selected_theme, set_order)
    /\ UNCHANGED <<upload, archive, filtering, controls>>

NextPlot == PlotSelectedZipContents

SpecPlot == InitPlot /\ [][NextPlot]_vars

---------------------------------------------------------------------------
(* What the specification says of the Header Scanner *)

\* every field of the row is empty or whitespace-only
AllFieldsBlank(row) ==
    \A i \in 1..Len(row) : \A j \in 1..Len(row[i]) : row[i][j] \in Whitespace

HasBlankRow(rows) == \E k \in 1..Len(rows) : AllFieldsBlank(rows[k])

\* 0-based index of the first all-blank row of a file that has one
FirstBlankIndex(rows) ==
    (CHOOSE k \in 1..Len(rows) :
        /\ AllFieldsBlank(rows[k])
        /\ \A j \in 1..(k - 1) : ~ AllFieldsBlank(rows[j])) - 1

SharedBlankIndex(zip_file, k) ==
    /\ zip_file # <<>>
    /\ \A i \in 1..Len(zip_file) :
          /\ HasBlankRow(zip_file[i].rows)
          /\ FirstBlankIndex(zip_file[i].rows) = k

C2_FallbackIsZero ==
    (/\ op = "scan"
     /\ \/ \E i \in 1..Len(archive) : ~ HasBlankRow(archive[i].rows)
        \/ \E i, j \in 1..Len(archive) :
              /\ HasBlankRow(archive[i].rows)
              /\ HasBlankRow(archive[j].rows)
              /\ FirstBlankIndex(archive[i].rows) # FirstBlankIndex(archive[j].rows))
    => result.first_empty_row_index = 0

---------------------------------------------------------------------------
(* What the specification says of the Record Slicer *)

\* the data rows of a member file of SliceFiles: what is neither preamble,
\* separator nor header; the i-th of them has absolute index i - 1
DataRecords(rows) ==
    SelectSeq(rows, LAMBDA r : r # <<>> /\ r # MetaRow /\ r # HeaderTAB)

ChannelColumn(channel) == CHOOSE c \in 1..Len(HeaderTAB) : HeaderTAB[c] = channel

\* the cells of one channel in the data rows whose absolute index is in [lo, hi)
WindowValues(rows, channel, lo, hi) ==
    LET recs == DataRecords(rows)
        idx == {i \in 0..(Len(recs) - 1) : lo <= i /\ i < hi}
        first == CHOOSE i \in idx : \A j \in idx : i <= j
    IN [k \in 1..Cardinality(idx) |-> recs[first + k][ChannelColumn(channel)]]

TracesNamed(name) == {i \in DOMAIN result.traces : result.traces[i].name = name}

Returned == op = "slice" /\ result.raised = ""

\* C4: the slicer emits exactly one series per (kept frame, y channel) pair and
\* no others, and the x and y values of the series of frame f are the data rows
\* with absolute index in [records_max*f + start, records_max*f + start + (end - start)).
C4_OneSeriesPerPairOverWindow ==
    Returned =>
        LET f == filtering
            rows == archive[1].rows
            start == f.records_slice[1]
            end == f.records_slice[2]
        IN /\ Len(result.traces) = Len(f.frames_to_keep) * Len(f.y_axis_data)
           /\ \A fi \in 1..Len(f.frames_to_keep), ci \in 1..Len(f.y_axis_data) :
                 LET frame == f.frames_to_keep[fi]
                     channel == f.y_axis_data[ci]
                     lo == f.records_max * frame + start
                     named == TracesNamed(TraceName(channel, frame, archive[1].name))
                 IN /\ Cardinality(named) = 1
                    /\ \A i \in named :
                          /\ result.traces[i].x =
                                 WindowValues(rows, f.x_axis_data, lo, lo + (end - start))
                          /\ result.traces[i].y =
                                 WindowValues(rows, channel, lo, lo + (end - start))

\* two frames, two channels, and the second frame's window holds rows
C4_Witness ==
    /\ Returned
    /\ filtering.frames_to_keep = <<0, 1>>
    /\ filtering.y_axis_data = <<ChB, ChA>>
    /\ filtering.records_max = 2
    /\ filtering.records_slice = <<1, 2>>
    /\ Len(result.traces) = 4
    /\ result.traces[3].y = << <<"3", "3">> >>
    /\ result.traces[4].x = << <<"1", "3">> >>

WindowInRange ==
    /\ 0 <= filtering.records_slice[1]
    /\ filtering.records_slice[1] <= filtering.records_slice[2]
    /\ filtering.records_slice[2] <= filtering.records_max

\* C5 (as claimed): for a window with 0 <= start <= end <= records_max every
\* emitted series has exactly end - start points, whatever its frame.
C5_SeriesLengthIsWindowLength ==
    (Returned /\ WindowInRange) =>
        \A i \in DOMAIN result.traces :
            /\ Len(result.traces[i].x) = filtering.records_slice[2] - filtering.records_slice[1]
            /\ Len(result.traces[i].y) = filtering.records_slice[2] - filtering.records_slice[1]

Max(a, b) == IF a > b THEN a ELSE b

\* C5 (amended): for such a window the series cut from frame f has exactly
\* end - start points when the file holds at least records_max*f + end data
\* rows; from a shorter file it has the rows that exist in the window,
\* min(end - start, max(0, rows - (records_max*f + start))) points.
C5_SeriesLengthGivenRows ==
    (Returned /\ WindowInRange) =>
        LET f == filtering
            start == f.records_slice[1]
            end == f.records_slice[2]
            data_rows == Len(DataRecords(archive[1].rows))
        IN \A fi \in 1..Len(f.frames_to_keep), ci \in 1..Len(f.y_axis_data) :
               LET frame == f.frames_to_keep[fi]
                   named == TracesNamed(TraceName(f.y_axis_data[ci], frame, archive[1].name))
                   expected ==
                       IF data_rows >= f.records_max * frame + end
                       THEN end - start
                       ELSE Min(end - start,
                                Max(0, data_rows - (f.records_max * frame + start)))
               IN /\ named # {}
                  /\ \A i \in named :
                        /\ Len(result.traces[i].x) = expected
                        /\ Len(result.traces[i].y) = expected

\* a full window of the second frame of a file that holds both frames
C5_Witness ==
    /\ Returned
    /\ WindowInRange
    /\ filtering.records_max = 2
    /\ filtering.records_slice = <<0, 2>>
    /\ filtering.frames_to_keep = <<0, 1>>
    /\ Len(DataRecords(archive[1].rows)) = 4
    /\ \A i \in DOMAIN result.traces : Len(result.traces[i].y) = 2
    /\ Len(result.traces) >= 2

---------------------------------------------------------------------------
(* What the specification says of the Axis Layout Engine *)

LaidOut == op = "layout"

\* the channels that have an axis slot, in declaration order
SlotChannels ==
    IF Has(filtering, "y_axis_selection")
    THEN [i \in 1..Len(filtering.y_axis_selection) |-> filtering.y_axis_selection[i][1]]
    ELSE <<>>

SlotOf(channel) == DictGet(filtering.y_axis_selection, channel)

OnRight(channel) == DictGet(filtering.y_axis_side, channel)

\* the overlay axes of one side, each once, in the order the channels are declared
SideAxes(right) ==
    FirstSeen(SelectSeq(
        [i \in 1..Len(SlotChannels) |->
            IF SlotOf(SlotChannels[i]) # AxisY /\ OnRight(SlotChannels[i]) = right
            THEN SlotOf(SlotChannels[i]) ELSE <<>>],
        LAMBDA a : a # <<>>))

LeftAxes == SideAxes(FALSE)
RightAxes == SideAxes(TRUE)

\* the layout key of an axis: yaxis2 for y2
LayoutKey(axis) == KeyYaxis \o Tail(axis)

XDomain == DictGet(result.layout, KeyXaxis).domain

PositionOf(axis) == DictGet(result.layout, LayoutKey(axis)).position

\* C7 (as claimed): with L distinct left and R distinct right overlay axes the
\* x-axis domain is (0.05*L, 1 - 0.05*R).
C7_DomainShrinksPerAxis ==
    LaidOut => XDomain = <<5 * Len(LeftAxes), 100 - 5 * Len(RightAxes)>>

\* C7 (amended): the domain is (0.05*L, 1.05 - 0.05*R) when R >= 1 and
\* (0.05*L, 1) when R = 0: the right edge shrinks by 0.05 for each right axis
\* after the first.
C7_DomainShrinksPerAxisAfterFirstRight ==
    LaidOut =>
        XDomain = <<5 * Len(LeftAxes),
                    IF Len(RightAxes) = 0 THEN 100 ELSE 105 - 5 * Len(RightAxes)>>

\* two right axes, one of them shared by two channels
C7_Witness ==
    /\ LaidOut
    /\ Len(SlotChannels) = 3
    /\ Len(RightAxes) = 2
    /\ Len(LeftAxes) = 0
    /\ XDomain = <<0, 95>>

\* C8: with exactly 2 distinct left overlay axes and 1 distinct right overlay
\* axis the x-domain is (0.10, 1.00), the two left axes have the positions
\* 0.05 and 0.10, and the right axis has the position 1.00.
C8_TwoLeftOneRight ==
    (LaidOut /\ Len(LeftAxes) = 2 /\ Len(RightAxes) = 1) =>
        /\ XDomain = <<10, 100>>
        /\ {PositionOf(LeftAxes[1]), PositionOf(LeftAxes[2])} = {5, 10}
        /\ PositionOf(RightAxes[1]) = 100

C8_Witness ==
    /\ LaidOut
    /\ Len(LeftAxes) = 2
    /\ Len(RightAxes) = 1
    /\ XDomain = <<10, 100>>
    /\ PositionOf(RightAxes[1]) = 100

\* C9 (as claimed): the i-th distinct left axis in declaration order is at
\* 0.05*i and the j-th distinct right axis in declaration order at
\* 1.00 - 0.05*(j - 1).
C9_PositionsFollowDeclarationOrder ==
    LaidOut =>
        /\ \A i \in 1..Len(LeftAxes) : PositionOf(LeftAxes[i]) = 5 * i
        /\ \A j \in 1..Len(RightAxes) : PositionOf(RightAxes[j]) = 100 - 5 * (j - 1)

\* C10: the primary axis y keeps position 0.0, is not in the position map and
\* does not shrink the x-axis domain; an overlay slot shared by several
\* channels has one position and is counted once.
C10_PrimaryFixedAndSlotsShared ==
    LaidOut =>
        LET overlays == ToSet(LeftAxes) \cup ToSet(RightAxes)
        IN /\ DictGet(result.layout, KeyYaxis).position = 0
           /\ ~ DictHas(result.positions, AxisY)
           /\ XDomain[1] = 5 * Cardinality(ToSet(LeftAxes))
           /\ XDomain[2] >= 100 - 5 * Cardinality(ToSet(RightAxes))
           /\ (overlays = {} => XDomain = <<0, 100>>)
           /\ Len(result.positions) = Cardinality(overlays)
           /\ Len(result.layout) = 2 + Cardinality(overlays)
           /\ \A c \in ToSet(SlotChannels) :
                 SlotOf(c) # AxisY =>
                     /\ DictHas(result.layout, LayoutKey(SlotOf(c)))
                     /\ PositionOf(SlotOf(c)) = DictGet(result.positions, SlotOf(c))

\* one channel on the primary axis and two sharing the overlay y3
C10_Witness ==
    /\ LaidOut
    /\ Len(SlotChannels) = 3
    /\ SlotOf(SlotChannels[1]) = AxisY
    /\ SlotOf(SlotChannels[2]) = <<"y", "3">>
    /\ SlotOf(SlotChannels[3]) = <<"y", "3">>
    /\ Len(result.positions) = 1
    /\ XDomain = <<5, 100>>

---------------------------------------------------------------------------
(* What the specification says of the plot pipeline *)

Plotted == op = "plot" /\ upload.payload = "zip"

\* the members the Selection keeps: those at the indices of files_to_keep, or
\* all of them
SelectedMembers ==
    IF Has(filtering, "files_to_keep")
    THEN {archive[i] : i \in {j \in 1..Len(archive) : (j - 1) \in ToSet(filtering.files_to_keep)}}
    ELSE ToSet(archive)

\* two selected files disagree on where their first all-blank row is
BlankIndexNotShared ==
    \E m1, m2 \in SelectedMembers :
        \/ HasBlankRow(m1.rows) /\ ~ HasBlankRow(m2.rows)
        \/ /\ HasBlankRow(m1.rows)
           /\ HasBlankRow(m2.rows)
           /\ FirstBlankIndex(m1.rows) # FirstBlankIndex(m2.rows)

\* C3 (as claimed): when the selected files do not share the same
\* first-blank-row index, each file is read with zero rows skipped, so its
\* first row (when it is not an empty line) is taken as the column header.
C3_FallbackSkipsNothing ==
    (Plotted /\ BlankIndexNotShared) =>
        \A i \in 1..Len(result.reads) :
            LET first_row == Head(MemberRows(archive, result.reads[i].name))
            IN /\ result.reads[i].skiprows = 0
               /\ first_row # <<>> =>
                      result.reads[i].columns = ColumnNames(first_row)

\* the header row of a member file of PlotFiles
TrueHeader(rows) ==
    rows[CHOOSE i \in 1..Len(rows) : rows[i] \in {HeaderTAB, HeaderTAC}]

HasChannels(m) ==
    \A c \in ToSet(filtering.y_axis_data) \cup {filtering.x_axis_data} :
        c \in ToSet(TrueHeader(m.rows))

\* C6 (as claimed): a channel absent from the header of one selected file does
\* not stop the plot; the figure returned holds the series of every other
\* selected file that has the channels.  Stated for archives whose files all
\* begin with their header row, so that the absent channel is the only error.
C6_MissingChannelConfinedToFile ==
    (/\ Plotted
     /\ EndsWith(Lower(upload.filename), DotZip)
     /\ \A m \in SelectedMembers : Head(m.rows) = TrueHeader(m.rows)
     /\ \E m \in SelectedMembers : ~ HasChannels(m)
     /\ \E m \in SelectedMembers : HasChannels(m))
    => /\ result.outcome = "figure"
       /\ \A m \in SelectedMembers :
             HasChannels(m) =>
                 \A c \in ToSet(filtering.y_axis_data) :
                     \E i \in 1..Len(result.figure.data) :
                         result.figure.data[i].name = TraceName(c, 0, m.name)

---------------------------------------------------------------------------
(* The Axis Layout Engine with many overlay axes *)

MaxCrowd == 21

Reverse(list) == [i \in 1..Len(list) |-> list[Len(list) + 1 - i]]

\* The store update_filtering_store leaves for n overlay channels, channel
\* i + 1 on its own axis y(i + 1) and the first n_left of them on the left
CrowdedStore(n, n_left) ==
    LET f == BaseFiltering(<<0>>, <<0, 1>>, 1, [i \in 1..(n + 1) |-> ChannelName(i)])
        keys == Tail(f.y_axis_data)
    IN WithKey(WithKey(f, "y_axis_selection",
                       DictFromLists(<<>>, keys,
                                     [i \in 1..n |-> AxisOfRadio(i + 1)], 1)),
               "y_axis_side",
               DictFromLists(<<>>, keys, [i \in 1..n |-> i > n_left], 1))

InitCrowd ==
    /\ controls = NoControls
    /\ upload = ZipUpload
    /\ archive = <<>>
    /\ \E n \in 0..MaxCrowd, n_left \in 0..MaxCrowd :
          /\ n_left <= n
          /\ filtering = CrowdedStore(n, n_left)
    /\ op = "init"
    /\ result = NoResult

\* lines 407-408 of plot_selected_zip_contents, for two of the orders in
\* which the sets may be iterated: as declared, and reversed
LayoutCrowdedFigure ==
    /\ op = "init"
    /\ \E reversed \in BOOLEAN :
          LET declared == FirstSeen(DictValues(filtering.y_axis_selection))
              set_order == List(IF reversed THEN Reverse(declared) ELSE declared)
          IN result' = [layout |->
                           update_layout_with_y_axes(
                               create_base_layout_configuration(filtering),
                               filtering, set_order),
                        positions |-> axis_positions(filtering, set_order)]
    /\ op' = "layout"
    /\ UNCHANGED <<upload, archive, filtering, controls>>

NextCrowd == LayoutCrowdedFigure

SpecCrowd == InitCrowd /\ [][NextCrowd]_vars

\* C11 (as claimed): in every layout distinct overlay axes have distinct
\* positions, no overlay axis sits at the primary axis position 0.0, and no
\* overlay axis position lies strictly inside the x-axis domain.
C11_AxesDoNotCollide ==
    LaidOut =>
        LET overlays == ToSet(LeftAxes) \cup ToSet(RightAxes)
        IN /\ \A a, b \in overlays : a # b => PositionOf(a) # PositionOf(b)
           /\ \A a \in overlays : PositionOf(a) # 0
           /\ \A a \in overlays :
                 ~ (XDomain[1] < PositionOf(a) /\ PositionOf(a) < XDomain[2])

---------------------------------------------------------------------------
(* Metadata Extractor: extract_info_from_zip and its integer variant *)

InfoChunkSize == 20

\* list(dict.fromkeys(value_list)): each value once, in first-seen order
RECURSIVE Unique(_)
Unique(value_list) ==
    IF value_list = <<>> THEN <<>>
    ELSE LET rest == Unique(SubSeq(value_list, 1, Len(value_list) - 1))
             last == value_list[Len(value_list)]
         IN IF last \in ToSet(rest) THEN rest ELSE Append(rest, last)

\* row[index + 1] for index, cell in enumerate(row)
\*     if cell == keyword and index + 1 < len(row)      (index is 0-based)
RECURSIVE RowValues(_, _, _)
RowValues(row, keyword, index) ==
    IF index >= Len(row) THEN <<>>
    ELSE (IF row[index + 1] = keyword /\ index + 1 < Len(row)
          THEN <<row[index + 2]>> ELSE <<>>)
         \o RowValues(row, keyword, index + 1)

RECURSIVE ChunkValues(_, _, _)
ChunkValues(chunk, keyword, r) ==
    IF r > Len(chunk) THEN <<>>
    ELSE RowValues(chunk[r], keyword, 0) \o ChunkValues(chunk, keyword, r + 1)

\* {keyword: [...] for keyword in search_keywords} over the first 20 rows
RECURSIVE KeywordValues(_, _, _, _)
KeywordValues(d, chunk, search_keywords, i) ==
    IF i > Len(search_keywords) THEN d
    ELSE KeywordValues(
             DictSet(d, search_keywords[i], ChunkValues(chunk, search_keywords[i], 1)),
             chunk, search_keywords, i + 1)

\* a mutant of process_csv_file: every row of the file is searched
process_csv_file_whole(rows, search_keywords) ==
    KeywordValues(<<>>, rows, search_keywords, 1)

process_csv_file(rows, search_keywords) ==
    KeywordValues(<<>>, Chunk(rows, 0, InfoChunkSize), search_keywords, 1)

\* a mutant of simplify_result_values: always the list
simplify_result_values_as_list(value_list) ==
    [kind |-> "list", value |-> Unique(value_list)]

\* a str and a list are told apart by kind
simplify_result_values(value_list) ==
    LET unique_values == Unique(value_list)
    IN IF Len(unique_values) = 1
       THEN [kind |-> "str", value |-> unique_values[1]]
       ELSE [kind |-> "list", value |-> unique_values]

\* extraction_results[keyword].extend(values) for each keyword of one file
RECURSIVE ExtendResults(_, _, _)
ExtendResults(extraction_results, file_results, i) ==
    IF i > Len(file_results) THEN extraction_results
    ELSE ExtendResults(
             DictSet(extraction_results, file_results[i][1],
                     DictGet(extraction_results, file_results[i][1])
                         \o file_results[i][2]),
             file_results, i + 1)

RECURSIVE ExtractFiles(_, _, _, _, _)
ExtractFiles(extraction_results, zip_archive, csv_file_list, keywords, i) ==
    IF i > Len(csv_file_list) THEN extraction_results
    ELSE ExtractFiles(
             ExtendResults(
                 extraction_results,
                 process_csv_file(MemberRows(zip_archive, csv_file_list[i]), keywords),
                 1),
             zip_archive, csv_file_list, keywords, i + 1)

\* a mutant of extract_info_from_zip: keywords never found are left out
extract_info_from_zip_found_only(zip_archive, keywords) ==
    LET extracted ==
            ExtractFiles(
                DictFromLists(<<>>, keywords, [i \in 1..Len(keywords) |-> <<>>], 1),
                zip_archive, CsvNames(zip_archive), keywords, 1)
    IN SelectSeq(List([i \in 1..Len(extracted) |->
                         <<extracted[i][1], simplify_result_values(extracted[i][2])>>]),
                 LAMBDA e : e[2].value # <<>>)

\* zip_archive is the archive the decoded contents hold
extract_info_from_zip(zip_archive, keywords) ==
    LET extraction_results ==
            DictFromLists(<<>>, keywords, [i \in 1..Len(keywords) |-> <<>>], 1)
        extracted ==
            ExtractFiles(extraction_results, zip_archive, CsvNames(zip_archive),
                         keywords, 1)
    IN List([i \in 1..Len(extracted) |->
                <<extracted[i][1], simplify_result_values(extracted[i][2])>>])

\* the value of a run of decimal digits
RECURSIVE DigitsValue(_)
DigitsValue(digits) ==
    IF digits = <<>> THEN 0
    ELSE 10 * DigitsValue(SubSeq(digits, 1, Len(digits) - 1))
         + ((CHOOSE d \in 1..10 : DigitChars[d] = digits[Len(digits)]) - 1)

\* int(text) of a str: surrounding whitespace, one optional sign, digits
\* (no input here groups its digits with underscores)
ParseInt(text) ==
    LET stripped == Strip(text)
        signed == stripped # <<>> /\ Head(stripped) \in {"+", "-"}
        digits == IF signed THEN Tail(stripped) ELSE stripped
    IN IF digits # <<>> /\ \A i \in 1..Len(digits) : digits[i] \in ToSet(DigitChars)
       THEN [raised |-> "",
             value |-> IF signed /\ Head(stripped) = "-"
                       THEN 0 - DigitsValue(digits) ELSE DigitsValue(digits)]
       ELSE [raised |-> "ValueError"]

\* a mutant of extract_info_from_zip_as_int: of several values the first counts
extract_info_from_zip_as_int_first(zip_archive, file_name, search_key) ==
    LET found == extract_info_from_zip(zip_archive, <<search_key>>)[1][2]
        text == IF found.kind = "str" THEN found.value
                ELSE IF found.value # <<>> THEN found.value[1] ELSE <<"x">>
    IN IF ~ EndsWith(Lower(file_name), DotZip) THEN [outcome |-> "no_update"]
       ELSE IF ParseInt(text).raised = ""
       THEN [outcome |-> "int", value |-> ParseInt(text).value]
       ELSE [outcome |-> "raised", error |-> "ValueError"]

\* int(next(iter(extract_info_from_zip(contents, [search_key]).values())));
\* int() of a list raises TypeError
extract_info_from_zip_as_int(zip_archive, file_name, search_key) ==
    IF EndsWith(Lower(file_name), DotZip)
    THEN LET found == extract_info_from_zip(zip_archive, <<search_key>>)[1][2]
         IN IF found.kind = "str"
            THEN (IF ParseInt(found.value).raised = ""
                  THEN [outcome |-> "int", value |-> ParseInt(found.value).value]
                  ELSE [outcome |-> "raised", error |-> "ValueError"])
            ELSE [outcome |-> "raised", error |-> "TypeError"]
    ELSE [outcome |-> "no_update"]

---------------------------------------------------------------------------
(* Inputs of the Metadata Extractor *)

MaxInfoRows == 2
MaxInfoFiles == 2

Kw1 == <<"k", "1">>
Kw2 == <<"k", "2">>

\* a row that names no keyword
PadRow == << <<"x">>, <<"2">> >>

\* keyword rows: a numeric, a non-numeric, a padded numeric and an empty value,
\* the other keyword, and the keyword twice in a row, the second time in the
\* last cell
InfoRowKinds ==
    { <<Kw1, <<"2">>>>, <<Kw1, <<"x">>>>, <<Kw1, <<" ", "1", "2">>>>, <<Kw1, <<>>>>,
      <<Kw2, <<"x">>>>, << <<"x">>, Kw1, <<"2">>, Kw1>> }

\* the first member: its rows start at row 0, at the last row of the first
\* 20 or just past it
InfoFiles ==
    { [i \in 1..pad |-> PadRow] \o rows :
        pad \in {0, InfoChunkSize - 1, InfoChunkSize},
        rows \in SeqsUpTo(InfoRowKinds, MaxInfoRows) }

\* the members after it: no row or one
InfoTailFiles ==
    { <<>>, << <<Kw1, <<"2">>>> >>, << <<Kw1, <<"x">>>> >> }

\* f1.csv, f2.csv, ...; the last member may be f<n>.txt instead
InfoMemberName(i, n, last_is_text) ==
    IF last_is_text /\ i = n
    THEN <<"f">> \o Dec(i) \o <<".", "t", "x", "t">>
    ELSE MemberName(i)

InitInfo ==
    /\ controls = NoControls
    /\ upload = ZipUpload
    /\ \E first \in InfoFiles, tail \in SeqsUpTo(InfoTailFiles, MaxInfoFiles - 1),
          last_is_text \in BOOLEAN, empty \in BOOLEAN :
          LET files == IF empty THEN <<>> ELSE <<first>> \o tail
          IN archive = [i \in 1..Len(files) |->
                           [name |-> InfoMemberName(i, Len(files), last_is_text),
                            rows |-> files[i]]]
    /\ filtering = NoFiltering
    /\ op = "init"
    /\ result = NoResult

\* signal_data_explorer_page line 551, with two keywords
ExtractInfo ==
    /\ op = "init"
    /\ result' = [keywords |-> <<Kw1, Kw2>>,
                  info |-> extract_info_from_zip(archive, <<Kw1, Kw2>>)]
    /\ op' = "info"
    /\ UNCHANGED <<upload, archive, filtering, controls>>

\* update_count_from_zip with process extract_info_from_zip_as_int
ExtractInfoAsInt ==
    /\ op = "init"
    /\ result' = extract_info_from_zip_as_int(archive, upload.filename, Kw1)
    /\ op' = "info_int"
    /\ UNCHANGED <<upload, archive, filtering, controls>>

NextInfo == ExtractInfo \/ ExtractInfoAsInt

SpecInfo == InitInfo /\ [][NextInfo]_vars

---------------------------------------------------------------------------
(* What the specification says of the Metadata Extractor *)

Extracted == op = "info"

IsCsvMember(i) == EndsWith(Lower(archive[i].name), DotCsv)

\* where a keyword is followed by a cell within the first 20 rows of a member
\* file: <<file, row, cell>>, all counted from 1
Hits(keyword) ==
    UNION { UNION { { <<i, r, c>> :
                        c \in { c \in 1..(Len(archive[i].rows[r]) - 1) :
                                  archive[i].rows[r][c] = keyword } } :
                    r \in 1..Min(20, Len(archive[i].rows)) } :
            i \in { i \in 1..Len(archive) : IsCsvMember(i) } }

ValueAt(h) == archive[h[1]].rows[h[2]][h[3] + 1]

HitValues(keyword) == {ValueAt(h) : h \in Hits(keyword)}

\* files in archive order, rows top to bottom, cells left to right
HitBefore(g, h) ==
    \/ g[1] < h[1]
    \/ g[1] = h[1] /\ g[2] < h[2]
    \/ g[1] = h[1] /\ g[2] = h[2] /\ g[3] < h[3]

FirstHit(keyword, value) ==
    CHOOSE h \in Hits(keyword) :
        /\ ValueAt(h) = value
        /\ \A g \in Hits(keyword) : ValueAt(g) = value => ~ HitBefore(g, h)

InfoOf(keyword) == DictGet(result.info, keyword)

\* C12: for each keyword the result is the single value when every value found
\* is the same, and otherwise the list of the distinct values found, each once,
\* in first-seen order.
C12_SingleValueOrDistinctList ==
    Extracted =>
        \A k \in ToSet(result.keywords) :
            /\ DictHas(result.info, k)
            /\ IF Cardinality(HitValues(k)) = 1
               THEN InfoOf(k) = [kind |-> "str",
                                 value |-> CHOOSE v \in HitValues(k) : TRUE]
               ELSE /\ InfoOf(k).kind = "list"
                    /\ ToSet(InfoOf(k).value) = HitValues(k)
                    /\ Len(InfoOf(k).value) = Cardinality(HitValues(k))
                    /\ \A a, b \in 1..Len(InfoOf(k).value) :
                          a < b => HitBefore(FirstHit(k, InfoOf(k).value[a]),
                                             FirstHit(k, InfoOf(k).value[b]))

\* two distinct values, one of them found twice, listed in the order found
C12_Witness ==
    /\ Extracted
    /\ Cardinality(Hits(Kw1)) = 3
    /\ InfoOf(Kw1) = [kind |-> "list", value |-> << <<"x">>, <<"2">> >>]

\* C12 also for one value found more than once
C12_WitnessSingle ==
    /\ Extracted
    /\ Cardinality(Hits(Kw1)) >= 2
    /\ InfoOf(Kw1).kind = "str"

\* some cell of some member file equals the keyword
Occurs(keyword) ==
    \E i \in 1..Len(archive) :
        /\ IsCsvMember(i)
        /\ \E r \in 1..Len(archive[i].rows) :
              keyword \in ToSet(archive[i].rows[r])

\* C13: a keyword that occurs in no member file gets an empty list, and every
\* other keyword the result it gets when asked for alone.
C13_AbsentKeywordGivesEmptyList ==
    Extracted =>
        \A k \in ToSet(result.keywords) :
            ~ Occurs(k) =>
                /\ DictHas(result.info, k)
                /\ InfoOf(k) = [kind |-> "list", value |-> <<>>]
                /\ \A other \in ToSet(result.keywords) \ {k} :
                      /\ DictHas(result.info, other)
                      /\ InfoOf(other) = extract_info_from_zip(archive, <<other>>)[1][2]

C13_Witness ==
    /\ Extracted
    /\ ~ Occurs(Kw2)
    /\ Occurs(Kw1)
    /\ InfoOf(Kw1) = [kind |-> "str", value |-> <<"2">>]
    /\ InfoOf(Kw2) = [kind |-> "list", value |-> <<>>]

\* the values a result holds
InfoValues(keyword) ==
    IF InfoOf(keyword).kind = "str" THEN {InfoOf(keyword).value}
    ELSE ToSet(InfoOf(keyword).value)

\* C14: the values recorded for a keyword are exactly those that follow it in
\* a row among the first 20 of a member file; a keyword seen only at row index
\* 20 or later, or only in the last cell of a row, contributes nothing.
C14_FirstTwentyRowsWithNextCell ==
    Extracted =>
        \A k \in ToSet(result.keywords) :
            /\ DictHas(result.info, k)
            /\ InfoValues(k) = HitValues(k)
            /\ Hits(k) = {} => InfoOf(k) = [kind |-> "list", value |-> <<>>]

\* the keyword sits at row index 19 with one value and at row index 20 with
\* another: only the first is recorded
C14_Witness ==
    /\ Extracted
    /\ Len(archive) = 1
    /\ Len(archive[1].rows) = 21
    /\ archive[1].rows[20] = <<Kw1, <<"2">>>>
    /\ archive[1].rows[21] = <<Kw1, <<"x">>>>
    /\ InfoOf(Kw1) = [kind |-> "str", value |-> <<"2">>]

\* the keyword occurs, but only past the first 20 rows or in a last cell
C14_WitnessNothingRecorded ==
    /\ Extracted
    /\ Occurs(Kw1)
    /\ InfoOf(Kw1) = [kind |-> "list", value |-> <<>>]

ExtractedAsInt == op = "info_int"

\* text that reads as a whole number
IsNumeric(text) == \E n \in 0..99 : Strip(text) = Dec(n)

NumberOf(text) == CHOOSE n \in 0..99 : Strip(text) = Dec(n)

C15_WitnessDiffering ==
    /\ ExtractedAsInt
    /\ Cardinality(HitValues(Kw1)) = 2
    /\ <<"2">> \in HitValues(Kw1)
    /\ result.outcome = "raised"

---------------------------------------------------------------------------
(* Inputs of the Container Reader *)

MaxReadFiles == 3

\* member names: b.csv, a.csv, A.CSV, c.txt and csv
ReaderNames ==
    { <<"b", ".", "c", "s", "v">>, <<"a", ".", "c", "s", "v">>,
      <<"A", ".", "C", "S", "V">>, <<"c", ".", "t", "x", "t">>, <<"c", "s", "v">> }

\* archives of members with distinct names, in any order
ReaderArchives ==
    { [i \in 1..Len(names) |->
          [name |-> names[i], rows |-> <<HeaderTAB>> \o DataRows(1)]] :
        names \in { n \in SeqsUpTo(ReaderNames, MaxReadFiles) :
                      \A i, j \in 1..Len(n) : n[i] = n[j] => i = j } }

\* files_to_keep: the handles of the files slider less one, ascending
ReaderFilters == { Ascending(S) : S \in SUBSET (0..MaxReadFiles) }

InitReader ==
    /\ controls = NoControls
    /\ upload = ZipUpload
    /\ archive \in ReaderArchives
    /\ \E keep \in ReaderFilters, filtered \in BOOLEAN :
          filtering =
              IF filtered
              THEN WithKey(BaseFiltering(<<0>>, <<0, 1>>, 1, <<ChA>>),
                           "files_to_keep", keep)
              ELSE BaseFiltering(<<0>>, <<0, 1>>, 1, <<ChA>>)
    /\ op = "init"
    /\ result = NoResult

ListCsvFiles ==
    /\ op = "init"
    /\ result' = get_csv_file_list(archive, filtering)
    /\ op' = "list"
    /\ UNCHANGED <<upload, archive, filtering, controls>>

\* the plotting path over the same archive and filter
PlotListedFiles ==
    /\ op = "init"
    /\ result' = plot_selected_zip_contents(
                     upload.payload, upload.filename, archive, filtering, TRUE, <<>>)
    /\ op' = "plot"
    /\ UNCHANGED <<upload, archive, filtering, controls>>

NextReader == ListCsvFiles \/ PlotListedFiles

SpecReader == InitReader /\ [][NextReader]_vars

---------------------------------------------------------------------------
(* What the specification says of the Container Reader *)

Listed == op = "list"

\* the name ends in .csv, in any letter case
HasTextSuffix(name) ==
    /\ Len(name) >= 4
    /\ name[Len(name) - 3] = "."
    /\ name[Len(name) - 2] \in {"c", "C"}
    /\ name[Len(name) - 1] \in {"s", "S"}
    /\ name[Len(name)] \in {"v", "V"}

\* the positions in the archive of the text-suffixed members, ascending
TextMembers == Ascending({i \in 1..Len(archive) : HasTextSuffix(archive[i].name)})

\* their names in member-list order
TextNames == [k \in 1..Len(TextMembers) |-> archive[TextMembers[k]].name]

NoFilter == ~ Has(filtering, "files_to_keep")

EmptyFilter == Has(filtering, "files_to_keep") /\ filtering.files_to_keep = <<>>

CodeOrder == <<".", "A", "C", "S", "V", "a", "b", "c", "s", "t", "v", "x">>

Code(char) == CHOOSE i \in 1..Len(CodeOrder) : CodeOrder[i] = char

\* a sorts before b: the order of sorted() on str
RECURSIVE SortsBefore(_, _)
SortsBefore(a, b) ==
    IF a = <<>> THEN b # <<>>
    ELSE IF b = <<>> THEN FALSE
    ELSE IF Head(a) = Head(b) THEN SortsBefore(Tail(a), Tail(b))
    ELSE Code(Head(a)) < Code(Head(b))

\* the name at zero-based position i of the sorted text-suffixed names
SortedTextName(i) ==
    CHOOSE n \in ToSet(TextNames) :
        Cardinality({m \in ToSet(TextNames) : SortsBefore(m, n)}) = i

\* C17 (as claimed): with a filter {i}, 0 <= i < N, the reader returns exactly
\* one name, the one at zero-based position i of the sorted list of
\* text-suffixed member names.
C17_SingleIndexPicksSortedPosition ==
    (/\ Listed
     /\ Has(filtering, "files_to_keep")
     /\ Len(filtering.files_to_keep) = 1
     /\ filtering.files_to_keep[1] < Len(TextNames))
    => /\ result.raised = ""
       /\ result.names = <<SortedTextName(filtering.files_to_keep[1])>>

\* the names left after the filter, by position in member-list order
FilteredNames ==
    IF NoFilter THEN TextNames
    ELSE SelectSeq([k \in 1..Len(TextNames) |->
                       IF (k - 1) \in ToSet(filtering.files_to_keep)
                       THEN TextNames[k] ELSE <<>>],
                   LAMBDA n : n # <<>>)

\* C18 (as claimed): whenever the list of member files left after the filter
\* is empty the reader fails, and the plotting path with it, also when the
\* archive holds text files and the filter selects none of them.
C18_EmptySelectionFails ==
    (op \in {"list", "plot"} /\ FilteredNames = <<>>) =>
        IF op = "list" THEN result.raised = "ValueError"
        ELSE result.outcome = "PreventUpdate" /\ result.error = "ValueError"

---------------------------------------------------------------------------
(* The encoded contents: the wrapper, base64 and the archive bytes *)

\* str.split(sep) for a separator of one character
RECURSIVE Split(_, _)
Split(text, sep) ==
    IF \E i \in 1..Len(text) : text[i] = sep
    THEN LET i == CHOOSE j \in 1..Len(text) :
                      /\ text[j] = sep
                      /\ \A k \in 1..(j - 1) : text[k] # sep
         IN <<SubSeq(text, 1, i - 1)>> \o Split(SubSeq(text, i + 1, Len(text)), sep)
    ELSE <<text>>

Base64Alphabet ==
    ToSet(Uppers) \cup ToSet(Lowers) \cup ToSet(DigitChars) \cup {"+", "/"}

\* base64.b64decode(text) without validation: characters outside the
\* alphabet are discarded, and what is left must fill groups of four
\* (no text here is padded with "=").  The bytes are written as the groups
\* that encode them.
b64decode(text) ==
    LET data == SelectSeq(text, LAMBDA c : c \in Base64Alphabet)
    IN IF Len(data) % 4 # 0
       THEN [raised |-> "binascii.Error", bytes |-> <<>>]
       ELSE [raised |-> "",
             bytes |-> List([i \in 1..(Len(data) \div 4) |->
                                SubSeq(data, 4 * i - 3, 4 * i)])]

\* the bytes of the archive that holds the members
ZipGroup == <<"U", "E", "s", "D">>
ZipBytes == <<ZipGroup>>

\* zipfile.ZipFile(io.BytesIO(decoded_contents))
ZipFile(decoded_contents, members) ==
    IF decoded_contents = ZipBytes
    THEN [raised |-> "", zip_file |-> members]
    ELSE [raised |-> "BadZipFile", zip_file |-> <<>>]

\* the text handed to b64decode and what it makes of it
DecodePayload(payload) == [payload |-> payload] @@ b64decode(payload)

\* try: b64decode(file_contents.split(",")[1])
\* except IndexError: b64decode(file_contents)
decoded_contents(file_contents) ==
    LET parts == Split(file_contents, ",")
    IN DecodePayload(IF Len(parts) >= 2 THEN parts[2] ELSE file_contents)

\* the opening of the archive the decoded bytes hold; decoded lists the
\* texts that were handed to b64decode
Opened(decoded, members) ==
    IF decoded.raised # ""
    THEN [raised |-> decoded.raised, zip_file |-> <<>>,
          decoded |-> <<decoded.payload>>]
    ELSE ZipFile(decoded.bytes, members) @@ [decoded |-> <<decoded.payload>>]

OpenContents(file_contents, members) ==
    Opened(decoded_contents(file_contents), members)

KindOfError(raised) ==
    IF raised = "binascii.Error" THEN "not_base64"
    ELSE IF raised = "BadZipFile" THEN "not_zip"
    ELSE "zip"

\* what read_and_validate_zip makes of the contents
PayloadKind(file_contents) == KindOfError(OpenContents(file_contents, <<>>).raised)

\* the with block of count_csv_files_from_zip
CountCsvFiles(opened) ==
    IF opened.raised # ""
    THEN [outcome |-> "raised", error |-> opened.raised,
          decoded |-> opened.decoded]
    ELSE [outcome |-> "int", value |-> Len(CsvNames(opened.zip_file)),
          decoded |-> opened.decoded]

count_csv_files_from_zip(file_contents, members) ==
    CountCsvFiles(OpenContents(file_contents, members))

\* the with block of extract_info_from_zip
ExtractInfoOpened(opened, keywords) ==
    IF opened.raised # ""
    THEN [outcome |-> "raised", error |-> opened.raised,
          decoded |-> opened.decoded]
    ELSE [outcome |-> "info",
          value |-> extract_info_from_zip(opened.zip_file, keywords),
          decoded |-> opened.decoded]

\* extract_info_from_zip from the encoded contents on
extract_info_from_zip_contents(file_contents, members, keywords) ==
    ExtractInfoOpened(OpenContents(file_contents, members), keywords)

\* read_and_validate_zip from the encoded contents on
read_and_validate_zip_contents(file_contents, file_name, members) ==
    IF ~ EndsWith(Lower(file_name), DotZip)
    THEN [raised |-> "ValueError", zip_file |-> <<>>, decoded |-> <<>>]
    ELSE OpenContents(file_contents, members)

\* filtering.get("files_to_remove", [])
get_csv_files_from_zip(zip_file, f) ==
    LET csv_file_list == CsvNames(zip_file)
        files_to_remove == IF Has(f, "files_to_remove")
                           THEN ToSet(f.files_to_remove) ELSE {}
    IN SelectSeq(
           List([i \in 1..Len(csv_file_list) |->
                    IF (i - 1) \in files_to_remove THEN <<>> ELSE csv_file_list[i]]),
           LAMBDA n : n # <<>>)

\* list(data_frame.columns) of the file read from the row after the first
\* empty one
process_csv_file_for_data_frame_extraction(zip_file, csv_file_name, process_result) ==
    read_csv(MemberRows(zip_file, csv_file_name),
             process_result.first_empty_row_index + 1)

\* data_frames[0] if the column lists are all the same, else []; a file with
\* no line left raises EmptyDataError, which nothing here catches
ColumnsOfDataFrames(data_frames, decoded) ==
    IF \E i \in 1..Len(data_frames) : data_frames[i].raised # ""
    THEN [outcome |-> "raised", error |-> "EmptyDataError", decoded |-> decoded]
    ELSE [outcome |-> "list",
          value |-> IF \A i \in 1..Len(data_frames) :
                           data_frames[i].columns = data_frames[1].columns
                    THEN data_frames[1].columns ELSE <<>>,
          decoded |-> decoded]

\* the with block of extract_data_frame_from_zip_contents once the files
\* are listed
DataFramesOfFiles(zip_file, csv_files, first_empty_row_index, decoded) ==
    IF csv_files = <<>>
    THEN [outcome |-> "list", value |-> <<>>, decoded |-> decoded]
    ELSE ColumnsOfDataFrames(
             List([i \in 1..Len(csv_files) |->
                      process_csv_file_for_data_frame_extraction(
                          zip_file, csv_files[i], first_empty_row_index)]),
             decoded)

\* binascii.Error and BadZipFile are caught and give []
DataFramesOfOpened(opened, csv_files) ==
    IF opened.raised # ""
    THEN [outcome |-> "list", value |-> <<>>, decoded |-> opened.decoded]
    ELSE DataFramesOfFiles(
             opened.zip_file, csv_files,
             find_first_empty_row_index(opened.zip_file, csv_files, DefaultChunkSize),
             opened.decoded)

DataFramesOfContents(opened, f) ==
    DataFramesOfOpened(opened, get_csv_files_from_zip(opened.zip_file, f))

\* The extension check comes first and returns [].
extract_data_frame_from_zip_contents(file_contents, file_name, f, members) ==
    IF ~ EndsWith(Lower(file_name), DotZip)
    THEN [outcome |-> "list", value |-> <<>>, decoded |-> <<>>]
    ELSE DataFramesOfContents(OpenContents(file_contents, members), f)

\* int(...) of what extract_info_from_zip found in the opened archive
InfoAsIntOpened(opened, file_name, search_key) ==
    IF opened.raised # ""
    THEN [outcome |-> "raised", error |-> opened.raised,
          decoded |-> opened.decoded]
    ELSE extract_info_from_zip_as_int(opened.zip_file, file_name, search_key)
         @@ [decoded |-> opened.decoded]

\* extract_info_from_zip_as_int from the encoded contents on: the extension
\* check comes before extract_info_from_zip is called
extract_info_from_zip_as_int_contents(contents, file_name, members, search_key) ==
    IF ~ EndsWith(Lower(file_name), DotZip)
    THEN [outcome |-> "no_update", decoded |-> <<>>]
    ELSE InfoAsIntOpened(OpenContents(contents, members), file_name, search_key)

---------------------------------------------------------------------------
(* The entry points that receive a file name together with contents *)

\* update_count_from_zip of callback_update_store_at_upload: process is one
\* of the three functions the page registers; marks is dict(enumerate(names, 1))
StoreMaxCount(max_count) ==
    IF max_count.outcome = "raised" THEN max_count
    ELSE [outcome |-> "store", max_count |-> max_count.value,
          marks |-> None, decoded |-> max_count.decoded]

StoreNames(names) ==
    IF names.outcome = "raised" THEN names
    ELSE [outcome |-> "store", max_count |-> Len(names.value),
          marks |-> names.value, decoded |-> names.decoded]

update_count_from_zip(contents, filename, global_store, members, process, search_key) ==
    IF ~ EndsWith(Lower(filename), DotZip)
    THEN [outcome |-> "no_update", decoded |-> <<>>]
    ELSE IF process = "extract_info_from_zip_as_int"
    THEN StoreMaxCount(extract_info_from_zip_as_int_contents(
                           contents, filename, members, search_key))
    ELSE IF process = "count_csv_files_from_zip"
    THEN StoreMaxCount(count_csv_files_from_zip(contents, members))
    ELSE StoreNames(extract_data_frame_from_zip_contents(
                        contents, filename, global_store, members))

\* contents is not None here; the suffix is compared as written
store_uploaded_file(contents, filename) ==
    IF EndsWith(filename, DotZip)
    THEN [outcome |-> "stored",
          data |-> [filename |-> filename, content |-> contents],
          decoded |-> <<>>]
    ELSE [outcome |-> "no_update", decoded |-> <<>>]

HorizontalUnits ==
    <<"H", "o", "r", "i", "z", "o", "n", "t", "a", "l", " ",
      "U", "n", "i", "t", "s">>
VerticalUnits == <<"V", "e", "r", "t", "i", "c", "a", "l", " ", "U", "n", "i", "t", "s">>

\* the body of the callback once extract_info_from_zip has returned or
\* raised; marks[f"{position}"] is marks[position] here
FilesFiltering(units_info, files, frames, records_range, value, records_max, marks, filename) ==
    IF units_info.outcome = "raised"
    THEN units_info
    ELSE IF EndsWith(Lower(filename), DotZip)
    THEN [outcome |-> "filtering",
          filtering |->
              [files_to_keep |-> List([i \in 1..Len(files) |-> files[i] - 1]),
               frames_to_keep |-> List([i \in 1..Len(frames) |-> frames[i] - 1]),
               x_axis_data |-> marks[value[1]],
               y_axis_data |-> List([i \in 1..(Len(value) - 1) |->
                                        marks[value[i + 1]]]),
               records_slice |-> records_range,
               records_max |-> records_max]
              @@ ("Horizontal Units" :> units_info.value[1][2])
              @@ ("Vertical Units" :> units_info.value[2][2]),
          decoded |-> units_info.decoded]
    ELSE [outcome |-> "no_update", decoded |-> units_info.decoded]

\* extract_info_from_zip is called before the extension is looked at; only
\* TypeError is caught, so what the decoding raises leaves the callback.
update_files_filtering_store_with_slider_values(files, frames, records_range, value, records_max, marks, select_contents, members) ==
    FilesFiltering(
        extract_info_from_zip_contents(
            select_contents.payload, members, <<HorizontalUnits, VerticalUnits>>),
        files, frames, records_range, value, records_max, marks,
        select_contents.filename)

\* {"display": ""} shows the graph column; no_update leaves an output alone
DisplayStyle == <<"display", "">>
NoUpdate == <<"no_update">>

\* return figure, {"display": ""}: what the pipeline returned goes to the
\* figure output, be it a figure or the PreventUpdate it returns on an error;
\* an exception that leaves the pipeline leaves the callback too
GraphReturned(figure, decoded) ==
    IF figure.outcome = "raised"
    THEN [outcome |-> "raised", error |-> figure.error, decoded |-> decoded,
          style |-> None]
    ELSE [outcome |-> figure.outcome, error |-> figure.error, decoded |-> decoded,
          style |-> DisplayStyle]

\* file_extension = filename.lower().split(".")[-1]; the pipeline then makes
\* its own check of the name in read_and_validate_zip
update_graph_with_uploaded_file(theme_switch, select_contents, f, members, set_order) ==
    LET parts == Split(Lower(select_contents.filename), ".")
    IN IF parts[Len(parts)] = <<"z", "i", "p">>
       THEN GraphReturned(
                plot_selected_zip_contents(
                    PayloadKind(select_contents.payload),
                    select_contents.filename, members, f, theme_switch, set_order),
                read_and_validate_zip_contents(
                    select_contents.payload, select_contents.filename,
                    members).decoded)
       ELSE [outcome |-> "no_update", error |-> "", decoded |-> <<>>,
             style |-> NoUpdate]

---------------------------------------------------------------------------
(* Inputs of the entry points *)

MaxWrapPieces == 4

\* the contents are made of a comma, a character outside the base64
\* alphabet, the group that encodes the archive and a single base64 character
WrapPieces == { <<",">>, <<";">>, ZipGroup, <<"A">> }

RECURSIVE Concat(_)
Concat(pieces) ==
    IF pieces = <<>> THEN <<>> ELSE Head(pieces) \o Concat(Tail(pieces))

WrappedContents == { Concat(pieces) : pieces \in SeqsUpTo(WrapPieces, MaxWrapPieces) }

EntryNames ==
    { <<"d", ".", "z", "i", "p">>, <<"d", ".", "Z", "i", "P">>,
      <<"d", ".", "c", "s", "v">>, <<"z", "i", "p">> }

\* one member with the two units and a count in its metadata rows, or no
\* text member
EntryArchives ==
    { << [name |-> MemberName(1),
          rows |-> << <<HorizontalUnits, UnitsS>>, <<VerticalUnits, UnitsV>>,
                      <<Kw1, <<"2">> >>, <<>>, HeaderTAB >> \o DataRows(1)] >>,
      << [name |-> <<"n", ".", "t", "x", "t">>, rows |-> << <<ChA>> >>] >> }

EntryMarks == <<ChT, ChA, ChB>>

\* the file name and the contents are those of the upload component or of
\* the contents store, which store_selected_file fills with any file of the
\* repository listing
InitEntry ==
    /\ controls = NoControls
    /\ \E n \in EntryNames, c \in WrappedContents :
          upload = [filename |-> n, payload |-> c]
    /\ archive \in EntryArchives
    /\ filtering = BaseFiltering(<<0>>, <<0, 1>>, 1, <<ChA>>)
    /\ op = "init"
    /\ result = NoResult

UpdateFilesCount ==
    /\ op = "init"
    /\ op' = "files_count"
    /\ result' = update_count_from_zip(upload.payload, upload.filename, filtering,
                                       archive, "count_csv_files_from_zip", <<>>)
    /\ UNCHANGED <<upload, archive, filtering, controls>>

UpdateFramesCount ==
    /\ op = "init"
    /\ op' = "frames_count"
    /\ result' = update_count_from_zip(upload.payload, upload.filename, filtering,
                                       archive, "extract_info_from_zip_as_int", Kw1)
    /\ UNCHANGED <<upload, archive, filtering, controls>>

UpdateDataSets ==
    /\ op = "init"
    /\ op' = "data_sets"
    /\ result' = update_count_from_zip(upload.payload, upload.filename, filtering,
                                       archive, "extract_data_frame_from_zip_contents",
                                       <<>>)
    /\ UNCHANGED <<upload, archive, filtering, controls>>

StoreUploadedFile ==
    /\ op = "init"
    /\ op' = "store_upload"
    /\ result' = store_uploaded_file(upload.payload, upload.filename)
    /\ UNCHANGED <<upload, archive, filtering, controls>>

UpdateFilesFilteringStore ==
    /\ op = "init"
    /\ op' = "files_filtering"
    /\ result' = update_files_filtering_store_with_slider_values(
                     <<1>>, <<1>>, <<0, 1>>, <<1, 2>>, 1, EntryMarks, upload, archive)
    /\ filtering' = IF result'.outcome = "filtering" THEN result'.filtering
                    ELSE filtering
    /\ UNCHANGED <<upload, archive, controls>>

UpdateGraph ==
    /\ op = "init"
    /\ op' = "graph"
    /\ \E set_order \in SetOrders(filtering) :
          result' = update_graph_with_uploaded_file(
                        TRUE, upload, filtering, archive, set_order)
    /\ UNCHANGED <<upload, archive, filtering, controls>>

NextEntry ==
    \/ UpdateFilesCount \/ UpdateFramesCount \/ UpdateDataSets
    \/ StoreUploadedFile \/ UpdateFilesFilteringStore \/ UpdateGraph

SpecEntry == InitEntry /\ [][NextEntry]_vars

---------------------------------------------------------------------------
(* The wrapper and the extension check *)

DecodingOps == {"files_count", "frames_count", "data_sets", "files_filtering", "graph"}

EntryOps == DecodingOps \cup {"store_upload"}

\* everything after the first comma of text, text itself without a comma
AfterFirstComma(text) ==
    IF \E i \in 1..Len(text) : text[i] = ","
    THEN SubSeq(text,
                (CHOOSE i \in 1..Len(text) :
                     text[i] = "," /\ \A k \in 1..(i - 1) : text[k] # ",") + 1,
                Len(text))
    ELSE text

\* C19: in every function that decodes the contents, the text handed to the
\* decoder is everything after the first comma of the contents, and the whole
\* contents when they hold no comma.
C19_PayloadIsAllAfterFirstComma ==
    op \in DecodingOps =>
        \A i \in 1..Len(result.decoded) :
            result.decoded[i] = AfterFirstComma(upload.payload)

NameEndsInZip == EndsWith(Lower(upload.filename), DotZip)

\* C20: at every entry point a file name that does not end in .zip, letter
\* case aside, ends the processing before the contents are decoded, and a
\* name that ends in .zip in any letter case is accepted: the upload is
\* stored, the other entry points go on to decode the contents.
C20_ExtensionCheckComesFirst ==
    op \in EntryOps =>
        IF NameEndsInZip
        THEN (IF op = "store_upload" THEN result.outcome = "stored"
              ELSE result.decoded # <<>>)
        ELSE result.decoded = <<>> /\ result.outcome \in {"no_update", "PreventUpdate"}

---------------------------------------------------------------------------
(* The render callback on contents that cannot be decoded *)

\* the pipeline was handed contents that are not base64 or not an archive
DecodeFailed ==
    /\ op = "graph"
    /\ result.decoded # <<>>
    /\ PayloadKind(upload.payload) # "zip"

\* C21: when the contents cannot be decoded, because they are not base64 or
\* not an archive, the render callback surfaces an error: it puts no value
\* on the figure output and does not make the graph column visible.
C21_DecodeFailureAbortsRender ==
    DecodeFailed =>
        /\ result.outcome = "raised"
        /\ result.style # DisplayStyle

---------------------------------------------------------------------------
(* The plot pipeline called twice on the same inputs *)

\* a mutant of PlotCall: the axis positions are kept in the Selection
PlotCallKeepingPositions(zip_contents, zip_name, members, f, use_selected_theme, set_order) ==
    [returned |-> plot_selected_zip_contents(
                      zip_contents, zip_name, members, f, use_selected_theme,
                      set_order),
     zip_contents |-> zip_contents,
     members |-> members,
     filtering |-> WithKey(f, "positions", axis_positions(f, set_order))]

\* One call of plot_selected_zip_contents: what it returns, and its arguments
\* as the call leaves them.  The function and the ones it calls only read
\* zip_contents and filtering; what they write to are the layout
\* configuration and the lists they create themselves.
PlotCall(zip_contents, zip_name, members, f, use_selected_theme, set_order) ==
    [returned |-> plot_selected_zip_contents(
                      zip_contents, zip_name, members, f, use_selected_theme,
                      set_order),
     zip_contents |-> zip_contents,
     members |-> members,
     filtering |-> f]

HeaderTABC == <<ChT, ChA, ChB, ChC>>

\* one member with three channels and one record
RerunArchive ==
    << [name |-> MemberName(1),
        rows |-> << HeaderTABC, << <<"1">>, <<"2">>, <<"3">>, <<"4">> >> >>] >>

\* the stores update_filtering_store leaves for three channels, and the store
\* before it has run
RerunStores ==
    LET f == BaseFiltering(<<0>>, <<0, 1>>, 1, <<ChA, ChB, ChC>>)
    IN {f} \cup
       { update_filtering_store(radioitems_values, switch, f).filtering :
           radioitems_values \in [1..2 -> 1..3], switch \in [1..2 -> BOOLEAN] }

InitRerun ==
    /\ controls = NoControls
    /\ \E c \in {"zip", "not_zip", "not_base64"} :
          upload = [filename |-> <<"d", ".", "z", "i", "p">>, payload |-> c]
    /\ archive = RerunArchive
    /\ filtering \in RerunStores
    /\ op = "init"
    /\ result = NoResult

\* the variables after a call: the arguments are as the call leaves them
AfterCall(call, returned) ==
    /\ result' = returned
    /\ upload' = [upload EXCEPT !.payload = call.zip_contents]
    /\ archive' = call.members
    /\ filtering' = call.filtering
    /\ UNCHANGED controls

FirstReturned(call, set_order) ==
    AfterCall(call, [before |-> [upload |-> upload, archive |-> archive,
                                 filtering |-> filtering],
                     first |-> call.returned,
                     first_order |-> set_order])

SecondReturned(call, set_order) ==
    AfterCall(call, [before |-> result.before,
                     first |-> result.first,
                     first_order |-> result.first_order,
                     second |-> call.returned,
                     second_order |-> set_order])

\* the first call; before keeps the arguments as they were handed over
PlotFirst ==
    /\ op = "init"
    /\ op' = "first"
    /\ \E set_order \in SetOrders(filtering) :
          FirstReturned(PlotCall(upload.payload, upload.filename, archive,
                                 filtering, TRUE, set_order),
                        set_order)

\* the second call, on what the first one left
PlotSecond ==
    /\ op = "first"
    /\ op' = "second"
    /\ \E set_order \in SetOrders(filtering) :
          SecondReturned(PlotCall(upload.payload, upload.filename, archive,
                                  filtering, TRUE, set_order),
                         set_order)

NextRerun == PlotFirst \/ PlotSecond

SpecRerun == InitRerun /\ [][NextRerun]_vars

\* C22: two runs of the pipeline on the same contents and the same Selection
\* give the same figure layout: the same x-axis domain and the same position
\* for every overlay axis.
C22_SameLayoutOnSecondRun ==
    (op = "second" /\ result.first.outcome = "figure") =>
        /\ result.second.outcome = "figure"
        /\ result.second.figure.layout = result.first.figure.layout

C23_WitnessFailure ==
    /\ op = "second"
    /\ result.first.outcome = "PreventUpdate"
    /\ filtering = result.before.filtering

---------------------------------------------------------------------------
(* The names, legend groups and axes of the emitted series *)

\* the frame and the channel of the i-th trace: the frames are the outer
\* loop, the channels the inner one
FrameOfTrace(i) ==
    filtering.frames_to_keep[((i - 1) \div Len(filtering.y_axis_data)) + 1]

ChannelOfTrace(i) ==
    filtering.y_axis_data[((i - 1) % Len(filtering.y_axis_data)) + 1]

LegendGroupSet == "legend_group" \in DOMAIN filtering /\ filtering.legend_group

\* the axes y_axis_selection assigns to the channel
AssignedAxes(channel) ==
    IF "y_axis_selection" \in DOMAIN filtering
    THEN { filtering.y_axis_selection[k][2] :
             k \in { j \in 1..Len(filtering.y_axis_selection) :
                       filtering.y_axis_selection[j][1] = channel } }
    ELSE {}

\* C24: every emitted series is named "<channel> frame<frame index + 1>
\* <file name>"; its legend group is the channel name when the legend_group
\* flag of the Selection is set and None otherwise; its axis is the one
\* y_axis_selection assigns to the channel, and y when it assigns none.
C24_SeriesNameGroupAndAxis ==
    (op = "slice" /\ result.raised = "") =>
        \A i \in 1..Len(result.traces) :
            /\ result.traces[i].name =
                   ChannelOfTrace(i) \o <<" ", "f", "r", "a", "m", "e">>
                       \o Dec(FrameOfTrace(i) + 1) \o <<" ">> \o archive[1].name
            /\ result.traces[i].legendgroup =
                   IF LegendGroupSet THEN ChannelOfTrace(i) ELSE <<"None">>
            /\ IF AssignedAxes(ChannelOfTrace(i)) = {}
               THEN result.traces[i].yaxis = <<"y">>
               ELSE AssignedAxes(ChannelOfTrace(i)) = {result.traces[i].yaxis}

\* grouped legends, one channel with an axis of its own and one without, and
\* a frame other than the first
C24_Witness ==
    /\ op = "slice"
    /\ result.raised = ""
    /\ LegendGroupSet
    /\ \E i, j \in 1..Len(result.traces) :
          /\ AssignedAxes(ChannelOfTrace(i)) # {}
          /\ AssignedAxes(ChannelOfTrace(j)) = {}
          /\ FrameOfTrace(i) > 0

C24_WitnessUngrouped ==
    /\ op = "slice"
    /\ result.raised = ""
    /\ ~ LegendGroupSet
    /\ Len(result.traces) > 1

---------------------------------------------------------------------------
(* The sides update_filtering_store leaves in the store *)

\* the store holds an axis and a side for each channel after the first
SidesStored ==
    /\ op = "store"
    /\ "y_axis_selection" \in DOMAIN filtering
    /\ "y_axis_side" \in DOMAIN filtering

\* the first position whose channel is on the axis of position i
FirstOnAxis(i) ==
    CHOOSE j \in 1..i :
        /\ filtering.y_axis_selection[j][2] = filtering.y_axis_selection[i][2]
        /\ \A k \in 1..(j - 1) :
              filtering.y_axis_selection[k][2] # filtering.y_axis_selection[i][2]

\* C27: after update_filtering_store has run, a channel on the primary axis y
\* is on the left (side False); channels on the same overlay axis have the
\* same side, the one the switch of the first of them had on entry; and the
\* switch list returned equals the stored sides position by position.
C27_SidesFollowFirstChannelOfSlot ==
    SidesStored =>
        \A i \in 1..Len(filtering.y_axis_selection) :
            /\ filtering.y_axis_side[i][1] = filtering.y_axis_selection[i][1]
            /\ result.switch[i] = filtering.y_axis_side[i][2]
            /\ IF filtering.y_axis_selection[i][2] = <<"y">>
               THEN filtering.y_axis_side[i][2] = FALSE
               ELSE filtering.y_axis_side[i][2] = result.switch_in[FirstOnAxis(i)]

\* two channels share an overlay axis and came in with different switches,
\* and a third channel is on the primary axis with its switch on
C27_Witness ==
    /\ SidesStored
    /\ \E i, j, k \in 1..Len(filtering.y_axis_selection) :
          /\ i < j
          /\ filtering.y_axis_selection[i][2] = filtering.y_axis_selection[j][2]
          /\ filtering.y_axis_selection[i][2] # <<"y">>
          /\ result.switch_in[i] # result.switch_in[j]
          /\ filtering.y_axis_selection[k][2] = <<"y">>
          /\ result.switch_in[k]

---------------------------------------------------------------------------
(* The Header Scanner under other chunk sizes *)

MaxChunkRows == 5
MaxChunkSize == 3

\* files of up to MaxChunkRows rows of any kind
ChunkFiles == SeqsUpTo(ScanRowKinds, MaxChunkRows)

InitChunk ==
    /\ controls = NoControls
    /\ upload = ZipUpload
    /\ \E rows \in ChunkFiles :
          archive = <<[name |-> MemberName(1), rows |-> rows]>>
    /\ filtering = NoFiltering
    /\ op = "init"
    /\ result = NoResult

\* process_csv on the member, with the chunk_size the caller passes
ScanInChunks ==
    /\ op = "init"
    /\ op' = "chunks"
    /\ \E chunk_size \in 1..MaxChunkSize :
          result' = [chunk_size |-> chunk_size,
                     candidate |-> process_csv(archive[1].rows, chunk_size)]
    /\ UNCHANGED <<upload, archive, filtering, controls>>

NextChunk == ScanInChunks

SpecChunk == InitChunk /\ [][NextChunk]_vars

\* a row whose cells are all empty once stripped of whitespace
AllBlank(row) ==
    \A c \in 1..Len(row) : \A k \in 1..Len(row[c]) : row[c][k] \in Whitespace

\* the 0-based indices of the all-blank rows of the member
BlankIndices == { i - 1 : i \in { j \in 1..Len(archive[1].rows) :
                                    AllBlank(archive[1].rows[j]) } }

\* C29: for every chunk size from 1 on, the candidate of a file is the
\* 0-based index of its first all-blank row in the whole file, and 0 when it
\* has none, wherever the row falls with respect to the chunks.
C29_CandidateIndependentOfChunkSize ==
    op = "chunks" =>
        IF BlankIndices = {}
        THEN result.candidate = 0
        ELSE /\ result.candidate \in BlankIndices
             /\ \A i \in BlankIndices : result.candidate <= i

\* the first all-blank row is the first row of a later chunk
C29_Witness ==
    /\ op = "chunks"
    /\ result.chunk_size > 1
    /\ result.candidate > 0
    /\ result.candidate % result.chunk_size = 0

\* the first all-blank row is inside a later chunk
C29_WitnessInsideChunk ==
    /\ op = "chunks"
    /\ result.candidate > result.chunk_size
    /\ result.candidate % result.chunk_size # 0

---------------------------------------------------------------------------
(* The repository inputs, the Search Files button and the repo info store *)

MaxClicks == 3

RepoFields == {"api", "owner", "name", "path"}

\* the texts a repository input can hold; the first is the layout's value
RepoValues == {<<"u">>, <<"v">>}

RepoDefault == <<"u">>

\* store_repo_info: nothing is stored once the button was clicked twice
store_repo_info(n_clicks, api, owner, name, path, repo_info_store) ==
    IF n_clicks > 1
    THEN repo_info_store
    ELSE [api |-> api, owner |-> owner, name |-> name, path |-> path]

\* the store after store_repo_info ran on the components' properties
StoredRepoInfo(c) ==
    store_repo_info(c.n_clicks, c.values.api, c.values.owner, c.values.name,
                    c.values.path, c.repo_info_store)

RepoUrl(repo_info) ==
    repo_info.api \o <<"/">> \o repo_info.owner \o <<"/">>
        \o repo_info.name \o <<"/">> \o repo_info.path

\* update_github_files_dropdown: the request goes to the stored repository
update_github_files_dropdown(n_clicks, repo_info, response) ==
    IF n_clicks = 0
    THEN [outcome |-> "raised", error |-> "PreventUpdate", url |-> <<>>,
          disabled |-> TRUE]
    ELSE [outcome |-> "returned", error |-> None, url |-> RepoUrl(repo_info),
          disabled |-> (response = "error")]

\* the page after its first load: the button was never clicked, and
\* store_repo_info ran once on the layout's values
InitRepo ==
    /\ controls = NoControls
    /\ upload = ZipUpload
    /\ archive = <<>>
    /\ filtering = NoFiltering
    /\ op = "init"
    /\ result = NoResult

LoadPage ==
    /\ op = "init"
    /\ op' = "load"
    /\ controls' = [n_clicks |-> 0,
                    values |-> [f \in RepoFields |-> RepoDefault],
                    repo_info_store |->
                        [f \in RepoFields |-> RepoDefault]]
    /\ UNCHANGED <<upload, archive, filtering, result>>

\* the user edits one repository input: store_repo_info runs
EditRepoInput ==
    /\ op # "init"
    /\ op' = "edit"
    /\ \E f \in RepoFields, v \in RepoValues :
          /\ v # controls.values[f]
          /\ controls' = [controls EXCEPT
                 !.values = [controls.values EXCEPT ![f] = v],
                 !.repo_info_store = StoredRepoInfo(
                     [controls EXCEPT !.values[f] = v])]
    /\ UNCHANGED <<upload, archive, filtering, result>>

\* the components after a click, and what the dropdown callback returned;
\* the dropdown callback takes the store as State, so it reads the store
\* either as it was at the click or as store_repo_info leaves it
Clicked(c, stored_first, response) ==
    /\ controls' = [c EXCEPT !.repo_info_store = StoredRepoInfo(c)]
    /\ result' = update_github_files_dropdown(
                     c.n_clicks,
                     IF stored_first THEN StoredRepoInfo(c)
                                     ELSE c.repo_info_store,
                     response)

\* a click on Search Files: both callbacks run
ClickSearchFiles ==
    /\ op # "init"
    /\ controls.n_clicks < MaxClicks
    /\ op' = "search"
    /\ \E stored_first \in BOOLEAN, response \in {"ok", "error"} :
          Clicked([controls EXCEPT !.n_clicks = @ + 1], stored_first,
                  response)
    /\ UNCHANGED <<upload, archive, filtering>>

NextRepo == LoadPage \/ EditRepoInput \/ ClickSearchFiles

SpecRepo == InitRepo /\ [][NextRepo]_vars

\* C30: every click on Search Files sends the request to the repository
\* the inputs name at the click, and the repo info store then holds the
\* values of the inputs.
C30_SearchUsesCurrentInputs ==
    op = "search" =>
        /\ result.url = RepoUrl(controls.values)
        /\ controls.repo_info_store = controls.values

---------------------------------------------------------------------------
(* The counters, the range sliders and the stores behind them *)

MaxRecordLength == 3

RecordLength ==
    <<"R", "e", "c", "o", "r", "d", " ", "L", "e", "n", "g", "t", "h">>

\* round(x) of a float x >= 0 given in tenths: a half goes to the even integer
RoundHalfEven(tenths) ==
    IF tenths % 10 < 5 THEN tenths \div 10
    ELSE IF tenths % 10 > 5 THEN (tenths \div 10) + 1
    ELSE IF (tenths \div 10) % 2 = 0 THEN tenths \div 10
    ELSE (tenths \div 10) + 1

\* the value is clamped with max(min(current, max_count), min_count)
labeled_counter_trio_callback(triggered, stored_data, current_count, resolution) ==
    Max(Min(IF triggered = "decrement" THEN current_count - resolution
            ELSE current_count + resolution,
            stored_data.max_count),
        stored_data.min_count)

\* float(current_count) is divided by 10, moved by resolution or multiplied by
\* 10, clamped, and rounded with round(..., None); the arithmetic is in tenths
labeled_counter_quintet_callback(triggered, stored_data, current_count, resolution) ==
    RoundHalfEven(
        Max(Min(IF triggered = "divide" THEN current_count
                ELSE IF triggered = "decrement"
                THEN 10 * (current_count - resolution)
                ELSE IF triggered = "increment"
                THEN 10 * (current_count + resolution)
                ELSE 100 * current_count,
                10 * stored_data.max_count),
            10 * stored_data.min_count))

\* slider_value[1] = slider_value[0] + int(current_count)
update_range_slider_pushable_and_value(current_count, slider_value) ==
    [pushable |-> current_count,
     value |-> <<slider_value[1], slider_value[1] + current_count>>]

\* a mutant of update_range_slider_value: the first handle is not locked
update_range_slider_value_unlocked(triggered_id, current_count, range_slider_input, lock) ==
    IF triggered_id = "range_slider"
    THEN [no_update |-> TRUE, value |-> range_slider_input]
    ELSE [no_update |-> FALSE, value |-> List([i \in 1..current_count |-> i])]

\* lock is <<>> for None and <<0>> for the lock the data sets slider is given
update_range_slider_value(triggered_id, current_count, range_slider_input, lock) ==
    IF triggered_id = "range_slider"
    THEN IF lock # <<>> /\ range_slider_input[lock[1] + 1] # 1
         THEN [no_update |-> FALSE,
               value |-> [range_slider_input EXCEPT ![lock[1] + 1] = 1]]
         ELSE [no_update |-> TRUE, value |-> range_slider_input]
    ELSE [no_update |-> FALSE, value |-> List([i \in 1..current_count |-> i])]

\* the slider's max is the store's max_count
update_range_slider_max_and_label(store) == store.max_count

reset_labeled_counter_callback(reset_value) == reset_value

\* generate_radioitems: one radio on y and one switch on False per channel
\* after the first y channel; marks that are None or lack a position raise
\* and leave the row as it is
generate_radioitems(c) ==
    IF Has(c, "marks")
       /\ \A i \in 2..Len(c.data_sets_value) :
              c.data_sets_value[i] \in 1..Len(c.marks)
    THEN [c EXCEPT
            !.radioitems = List([i \in 1..Max(Len(c.data_sets_value) - 2, 0) |-> 1]),
            !.switch = List([i \in 1..Max(Len(c.data_sets_value) - 2, 0) |-> FALSE])]
    ELSE c

---------------------------------------------------------------------------
(* The page's controls from one user event to the next; each event is
   followed by the callbacks it triggers, in the order of their inputs *)

\* the layout: limits, default counts and slider values; the sliders are
\* given no max and no marks, which are keys the callbacks add
LayoutControls ==
    [records_store |-> [min_count |-> 1, max_count |-> 2],
     records_button |-> 1,
     records_value |-> <<0, 1>>,
     records_pushable |-> 1,
     data_sets_store |-> [min_count |-> 2, max_count |-> 3],
     data_sets_button |-> 2,
     data_sets_value |-> <<1>>,
     radioitems |-> <<>>,
     switch |-> <<>>]

\* store['max_count'] = ... of update_count_from_zip
StoreWith(store, returned) == [store EXCEPT !.max_count = returned.max_count]

\* the records store after update_count_from_zip returned, and the max that
\* update_range_slider_max_and_label gives the slider
RecordsStored(c, returned) ==
    IF returned.outcome # "store" THEN c
    ELSE WithKey([c EXCEPT !.records_store = StoreWith(@, returned)],
                 "records_max",
                 update_range_slider_max_and_label(
                     StoreWith(c.records_store, returned)))

\* the same for the data sets, whose slider also gets the names as marks
DataSetsStored(c, returned) ==
    IF returned.outcome # "store" THEN c
    ELSE WithKey(WithKey([c EXCEPT !.data_sets_store = StoreWith(@, returned)],
                         "data_sets_max",
                         update_range_slider_max_and_label(
                             StoreWith(c.data_sets_store, returned))),
                 "marks", returned.marks)

WithRecordsSlider(c, returned) ==
    [c EXCEPT !.records_pushable = returned.pushable,
              !.records_value = returned.value]

\* the records counter changed: update_range_slider_pushable_and_value
RecordsCounted(c) ==
    WithRecordsSlider(
        c, update_range_slider_pushable_and_value(c.records_button, c.records_value))

WithDataSetsValue(c, returned) ==
    IF returned.no_update THEN c ELSE [c EXCEPT !.data_sets_value = returned.value]

\* the data sets slider changed: update_range_slider_value with lock 0, then
\* generate_radioitems on the value it leaves
DataSetsMoved(c) ==
    generate_radioitems(
        WithDataSetsValue(
            c, update_range_slider_value("range_slider", c.data_sets_button,
                                         c.data_sets_value, <<0>>)))

\* the data sets counter changed: update_range_slider_value, whose output is
\* the slider value that triggers it again
DataSetsCounted(c) ==
    DataSetsMoved(
        WithDataSetsValue(
            c, update_range_slider_value("button", c.data_sets_button,
                                         c.data_sets_value, <<0>>)))

\* reset_labeled_counter_callback of both counters
CountersReset(c) ==
    DataSetsCounted(RecordsCounted(
        [c EXCEPT !.records_button = reset_labeled_counter_callback(1),
                  !.data_sets_button = reset_labeled_counter_callback(2)]))

RecordsMax(c) == IF Has(c, "records_max") THEN c.records_max ELSE None

StoredOrKept(returned, f) ==
    IF returned.outcome = "filtering" THEN returned.filtering ELSE f

\* update_files_filtering_store_with_slider_values on the controls: an empty
\* contents store and marks that are None raise TypeError (no_update), a
\* position the marks lack raises KeyError; the store is then left as it is
FilteringStored(c, select_contents, members, f) ==
    IF ~ Has(select_contents, "payload") \/ ~ Has(c, "marks")
    THEN f
    ELSE IF \E i \in 1..Len(c.data_sets_value) :
                c.data_sets_value[i] \notin 1..Len(c.marks)
    THEN f
    ELSE StoredOrKept(
             update_files_filtering_store_with_slider_values(
                 <<1>>, <<1>>, c.records_value, c.data_sets_value, RecordsMax(c),
                 c.marks, select_contents, members),
             f)

\* update_filtering_store on the radios and switches of the row
AxesStored(c, f) ==
    IF Has(f, "y_axis_data")
    THEN update_filtering_store(c.radioitems, c.switch, f)
    ELSE [filtering |-> f, no_update |-> TRUE]

WithSwitch(c, returned) ==
    IF returned.no_update THEN c ELSE [c EXCEPT !.switch = returned.switch]

AxesSettled(c, returned) ==
    /\ filtering' = returned.filtering
    /\ controls' = WithSwitch(c, returned)

\* the filtering store and the switches once the callbacks have run
Settled(c, select_contents, members) ==
    AxesSettled(c, AxesStored(c, FilteringStored(c, select_contents, members,
                                                 filtering)))

\* the encoded archive after the wrapper's comma
ControlContents == <<",">> \o ZipGroup

\* archives of one member with a Record Length row and the columns t, a, b,
\* and an archive without a text member
ControlArchives ==
    { << [name |-> MemberName(1),
          rows |-> << <<HorizontalUnits, UnitsS>>, <<VerticalUnits, UnitsV>>,
                      <<RecordLength, Dec(n)>>, <<>>, HeaderTAB >>
                   \o DataRows(1)] >> : n \in 1..MaxRecordLength }
    \cup { << [name |-> <<"n", ".", "t", "x", "t">>, rows |-> << <<ChA>> >>] >> }

NoUpload == [none |-> TRUE]

InitControls ==
    /\ controls = LayoutControls
    /\ upload = NoUpload
    /\ archive = <<>>
    /\ filtering = NoFiltering
    /\ op = "init"
    /\ result = NoResult

\* the contents store as store_uploaded_file leaves it
ContentsStored(returned) ==
    [filename |-> returned.data.filename, payload |-> returned.data.content]

\* the stores, counters and sliders after the callbacks of an upload
Uploaded(c, select_contents, members) ==
    Settled(
        CountersReset(
            DataSetsStored(
                RecordsStored(
                    c, update_count_from_zip(
                           select_contents.payload, select_contents.filename,
                           filtering, members,
                           "extract_info_from_zip_as_int", RecordLength)),
                update_count_from_zip(
                    select_contents.payload, select_contents.filename,
                    filtering, members,
                    "extract_data_frame_from_zip_contents", <<>>))),
        select_contents, members)

\* the user uploads d.zip
UploadArchive ==
    /\ op' = "upload"
    /\ \E members \in ControlArchives :
          /\ archive' = members
          /\ upload' = ContentsStored(
                 store_uploaded_file(ControlContents, ZipUpload.filename))
          /\ Uploaded(controls,
                      ContentsStored(
                          store_uploaded_file(ControlContents, ZipUpload.filename)),
                      members)
    /\ result' = NoResult

\* a click on <<, <, > or >> of the records counter
ClickRecordsCounter ==
    /\ op' = "records_counter"
    /\ \E triggered \in {"divide", "decrement", "increment", "multiply"} :
          Settled(
              RecordsCounted(
                  [controls EXCEPT !.records_button =
                      labeled_counter_quintet_callback(
                          triggered, controls.records_store,
                          controls.records_button, 1)]),
              upload, archive)
    /\ result' = NoResult
    /\ UNCHANGED <<upload, archive>>

\* a click on < or > of the data sets counter
ClickDataSetsCounter ==
    /\ op' = "data_sets_counter"
    /\ \E triggered \in {"decrement", "increment"} :
          Settled(
              DataSetsCounted(
                  [controls EXCEPT !.data_sets_button =
                      labeled_counter_trio_callback(
                          triggered, controls.data_sets_store,
                          controls.data_sets_button, 1)]),
              upload, archive)
    /\ result' = NoResult
    /\ UNCHANGED <<upload, archive>>

\* the user drags a handle of the records slider; the widget keeps the
\* handles within min and max and pushable apart
MoveRecordsSlider ==
    /\ Has(controls, "records_max")
    /\ op' = "records_slider"
    /\ \E low \in 0..controls.records_max, high \in 0..controls.records_max :
          /\ low + controls.records_pushable <= high
          /\ <<low, high>> # controls.records_value
          /\ result' = [dragged |-> <<low, high>>]
          /\ Settled([controls EXCEPT !.records_value = <<low, high>>],
                     upload, archive)
    /\ UNCHANGED <<upload, archive>>

\* the values a slider with the handles of value can be dragged to
SliderValues(value, max) ==
    { v \in [1..Len(value) -> 1..max] : \A i \in 1..(Len(value) - 1) : v[i] < v[i + 1] }

\* the user drags a handle of the data sets slider
MoveDataSetsSlider ==
    /\ Has(controls, "data_sets_max")
    /\ op' = "data_sets_slider"
    /\ \E value \in SliderValues(controls.data_sets_value, controls.data_sets_max) :
          /\ value # controls.data_sets_value
          /\ result' = [dragged |-> value]
          /\ Settled(DataSetsMoved([controls EXCEPT !.data_sets_value = value]),
                     upload, archive)
    /\ UNCHANGED <<upload, archive>>

\* the user sets the radios and the switches of the row
SetAxes ==
    /\ Has(filtering, "y_axis_data")
    /\ controls.radioitems # <<>>
    /\ op' = "axes"
    /\ \E radioitems_values \in [1..Len(controls.radioitems) ->
                                    1..(Len(controls.radioitems) + 1)],
          switch \in [1..Len(controls.radioitems) -> BOOLEAN] :
          AxesSettled([controls EXCEPT !.radioitems = radioitems_values,
                                       !.switch = switch],
                      AxesStored([controls EXCEPT !.radioitems = radioitems_values,
                                                  !.switch = switch],
                                 filtering))
    /\ result' = NoResult
    /\ UNCHANGED <<upload, archive>>

NextControls ==
    \/ UploadArchive \/ ClickRecordsCounter \/ ClickDataSetsCounter
    \/ MoveRecordsSlider \/ MoveDataSetsSlider \/ SetAxes

SpecControls == InitControls /\ [][NextControls]_vars

---------------------------------------------------------------------------
(* The records window, the counters and the first handle of the data sets *)

C28_WitnessSecondChannel ==
    /\ op = "axes"
    /\ Len(filtering.y_axis_data) = 2
    /\ DictHas(filtering.y_axis_selection, filtering.y_axis_data[2])
    /\ DictGet(filtering.y_axis_selection, filtering.y_axis_data[2]) = <<"y", "2">>

====
